---- MODULE Spec2Model ----
(***************************************************************************)
(* Review acquisition of amazon-review-intelligence.                       *)
(*                                                                         *)
(* Two fetchers exist in the repository and both are modelled:             *)
(*   - ReviewScraper.fetch_by_asin -> AmazonScraper.fetch_reviews ->       *)
(*     ApifyService.fetch_reviews (app/services), with the multi-country   *)
(*     loop of AmazonScraper.fetch_reviews_multiple_countries;             *)
(*   - analyze_product -> fetch_apify_reviews (main.py), with the          *)
(*     USE_MOCK_FALLBACK substitution of generate_mock_reviews.            *)
(*                                                                         *)
(* Python dicts are records whose DOMAIN is the set of keys present.       *)
(* Ratings are kept in tenths of a star (5.0 stars = 50).                  *)
(***************************************************************************)
EXTENDS Integers, Sequences, FiniteSets, TLC

VARIABLES cfg, req, pc, asin, countries, idx, calls, errors, mock_calls, result,
          growth_data_store, files

vars == <<cfg, req, pc, asin, countries, idx, calls, errors, mock_calls, result,
         growth_data_store, files>>

----------------------------------------------------------------------------
(* Bounds of the model.                                                    *)

\* largest max_reviews a caller asks for
MaxRequested == 6

\* largest number of raw records one upstream run returns
MaxItems == 6

\* value of the environment setting MAX_REVIEWS_PER_REQUEST (main.py)
MAX_REVIEWS == 3

----------------------------------------------------------------------------
(* Python values coming from the upstream JSON: None, strings, numbers.    *)

None == [t |-> "none", s |-> "", n |-> 0]

Str(s) == [t |-> "str", s |-> s, n |-> 0]

Num(n) == [t |-> "num", s |-> "", n |-> n]

\* bool(v) of Python
Truthy(v) == \/ v.t = "str" /\ v.s # ""
             \/ v.t = "num" /\ v.n # 0

\* dict.get(k), None when the key is absent
Get(d, k) == IF k \in DOMAIN d THEN d[k] ELSE None

\* dict.get(k, default)
GetOr(d, k, default) == IF k \in DOMAIN d THEN d[k] ELSE default

\* v1 or v2 or ... or last: the first truthy operand, else the last one
FirstTruthy(vals, last) ==
    IF \E i \in DOMAIN vals : Truthy(vals[i])
      THEN vals[CHOOSE i \in DOMAIN vals :
                   Truthy(vals[i]) /\ \A k \in 1..(i - 1) : ~Truthy(vals[k])]
      ELSE last

\* the strings float() accepts, with their value in tenths
FloatTable == [s \in {"0", "4", "4.5", "5.0"} |->
                 CASE s = "0" -> 0 [] s = "4" -> 40 [] s = "4.5" -> 45 [] s = "5.0" -> 50]

\* float(v) succeeds
FloatOk(v) == \/ v.t = "num"
              \/ v.t = "str" /\ v.s \in DOMAIN FloatTable

\* float(v), in tenths
FloatOf(v) == IF v.t = "num" THEN v.n ELSE FloatTable[v.s]

\* str.strip() on the texts used here
StripStr(s) == IF s = "  " THEN "" ELSE s

\* str.split()[0] on the rating strings used here
FirstToken(s) == IF s = "5.0 out of 5 stars" THEN "5.0" ELSE s

----------------------------------------------------------------------------
(* AmazonURLParser: strings are sequences of one-character strings.        *)

AsinLen == 10

Digits == {"0", "1", "2", "3", "4", "5", "6", "7", "8", "9"}

LowerSeq == <<"a", "b", "c", "d", "g", "i", "n", "o", "p", "r", "s", "t", "u", "w">>

UpperSeq == <<"A", "B", "C", "D", "G", "I", "N", "O", "P", "R", "S", "T", "U", "W">>

Range(f) == {f[i] : i \in DOMAIN f}

\* str.upper(), character by character
UpperChar(c) == IF \E i \in DOMAIN LowerSeq : LowerSeq[i] = c
                  THEN UpperSeq[CHOOSE i \in DOMAIN LowerSeq : LowerSeq[i] = c]
                  ELSE c

Upper(s) == [i \in DOMAIN s |-> UpperChar(s[i])]

\* str.isalnum() for one character
IsAlnumChar(c) == c \in Digits \cup Range(LowerSeq) \cup Range(UpperSeq)

RECURSIVE LStrip(_)
LStrip(s) == IF s # <<>> /\ Head(s) = " " THEN LStrip(Tail(s)) ELSE s

RECURSIVE RStrip(_)
RStrip(s) == IF s # <<>> /\ s[Len(s)] = " " THEN RStrip(SubSeq(s, 1, Len(s) - 1)) ELSE s

Strip(s) == RStrip(LStrip(s))

is_valid_asin(s) ==
    /\ s # <<>>
    /\ Len(s) = AsinLen
    /\ s[1] = "B"
    /\ \A i \in 2..Len(s) : IsAlnumChar(s[i])

\* the literal prefixes of ASIN_PATTERNS, upper-cased (the search ignores case);
\* each position is the set of characters it accepts
ASIN_PATTERNS == <<
    << {"/"}, {"D"}, {"P"}, {"/"} >>,
    << {"/"}, {"G"}, {"P"}, {"/"}, {"P"}, {"R"}, {"O"}, {"D"}, {"U"}, {"C"}, {"T"}, {"/"} >>,
    << {"/"}, {"P"}, {"R"}, {"O"}, {"D"}, {"U"}, {"C"}, {"T"}, {"/"} >>,
    << {"/"}, {"A"}, {"S"}, {"I"}, {"N"}, {"/"} >>,
    << {"?", "&"}, {"A"}, {"S"}, {"I"}, {"N"}, {"="} >> >>

\* the pattern matches s at position i: its prefix, then AsinLen characters of [A-Z0-9]
MatchesAt(p, s, i) ==
    /\ i + Len(p) + AsinLen - 1 <= Len(s)
    /\ \A j \in 1..Len(p) : UpperChar(s[i + j - 1]) \in p[j]
    /\ \A j \in 1..AsinLen : IsAlnumChar(s[i + Len(p) + j - 1])

\* re.search: the leftmost match, or no match
HasMatch(p, s) == \E i \in 1..Len(s) : MatchesAt(p, s, i)

FirstMatch(p, s) == CHOOSE i \in 1..Len(s) :
                       /\ MatchesAt(p, s, i)
                       /\ \A k \in 1..(i - 1) : ~MatchesAt(p, s, k)

\* match.group(1).upper()
Group1(p, s) == LET i == FirstMatch(p, s)
                IN  Upper(SubSeq(s, i + Len(p), i + Len(p) + AsinLen - 1))

\* the patterns, in order, whose capture is a valid ASIN
GoodPatterns(s) == {k \in DOMAIN ASIN_PATTERNS :
                       HasMatch(ASIN_PATTERNS[k], s) /\ is_valid_asin(Group1(ASIN_PATTERNS[k], s))}

NoAsin == <<"N", "o", "n", "e">>

extract_asin(url_or_asin) ==
    IF url_or_asin = <<>> THEN NoAsin
    ELSE LET s == Strip(url_or_asin)
         IN  IF is_valid_asin(s) THEN Upper(s)
             ELSE IF GoodPatterns(s) # {}
                  THEN Group1(ASIN_PATTERNS[CHOOSE k \in GoodPatterns(s) :
                                               \A m \in GoodPatterns(s) : k <= m], s)
                  ELSE NoAsin

----------------------------------------------------------------------------
(* ApifyService (app/services/apify_service.py).                           *)

\* "MAX 5 REVIEWS ONLY"
ApifyMaxReviews == 5

Min(a, b) == IF a <= b THEN a ELSE b

\* seq[:n]
Take(seq, n) == SubSeq(seq, 1, Min(n, Len(seq)))

\* an absent or empty dict
NoData == << >>

\* where the review of a raw item lives (options 1 to 4 of the transform)
ReviewDataOf(item) ==
    IF "review" \in DOMAIN item THEN item.review
    ELSE IF DOMAIN item \cap {"reviewText", "reviewTitle", "rating", "reviewId"} # {} THEN item
    ELSE IF "data" \in DOMAIN item
         THEN IF "review" \in DOMAIN item.data THEN item.data.review ELSE NoData
    ELSE IF "reviews" \in DOMAIN item
         THEN IF item.reviews # << >> THEN item.reviews[1] ELSE NoData
    ELSE NoData

\* str(v) of a text value
StrOf(v) == IF v.t = "str" THEN v.s ELSE "number"

\* the rating of a transformed review: float(...) or 0 when float() raises
RatingOf(v) == IF FloatOk(v) THEN FloatOf(v) ELSE 0

\* the review dict built from review_data, after the clean-up
TransformOne(rd) ==
    LET review_text == FirstTruthy(<<Get(rd, "text"), Get(rd, "reviewText"),
                                     Get(rd, "content"), Get(rd, "body")>>, Str(""))
        review_title == FirstTruthy(<<Get(rd, "title"), Get(rd, "reviewTitle"),
                                      Get(rd, "summary")>>, Str(""))
        rating == FirstTruthy(<<Get(rd, "rating"), Get(rd, "starRating"),
                                Get(rd, "stars")>>, Num(0))
    IN  [review_text |-> IF Truthy(review_text) THEN StripStr(StrOf(review_text)) ELSE "",
         rating      |-> RatingOf(rating),
         review_date |-> FirstTruthy(<<Get(rd, "date"), Get(rd, "reviewDate"),
                                       Get(rd, "timestamp")>>, Str("")),
         title       |-> IF Truthy(review_title) THEN StripStr(StrOf(review_title)) ELSE "",
         text        |-> StrOf(review_text),
         source      |-> "apify"]

\* "Only add if we have basic review data"
KeepsReview(review) ==
    LET has_content == review.review_text # "" \/ review.title # ""
        has_rating  == review.rating # 0
    IN  has_content \/ has_rating

RECURSIVE _transform_junglee_reviews(_)
_transform_junglee_reviews(items) ==
    IF items = << >> THEN << >>
    ELSE LET rd   == ReviewDataOf(Head(items))
             rest == _transform_junglee_reviews(Tail(items))
         IN  IF DOMAIN rd = {} THEN rest
             ELSE IF KeepsReview(TransformOne(rd)) THEN <<TransformOne(rd)>> \o rest
             ELSE rest

\* the statuses on which the polling loop returns the run record
TerminalStatuses == {"SUCCEEDED", "FAILED", "TIMED_OUT", "ABORTED"}

\* timeout_seconds of _wait_for_run_completion and the pause between two polls, in seconds
timeout_seconds == 300
PollSleep == 5

\* run_client.get() at `elapsed` seconds after the wait began: the run record the upstream
\* keeps.  A run that ends shows run.final from run.after on, a run that does not shows
\* "RUNNING" for ever; run.message tells whether its record carries an errorMessage.
RunInfoAt(run, elapsed) ==
    IF run.ends /\ elapsed >= run.after
      THEN IF run.message THEN [status |-> run.final, errorMessage |-> "Actor failed"]
           ELSE [status |-> run.final]
    ELSE [status |-> "RUNNING"]

\* variant: after the loop the wait hands back the record it polled last
RECURSIVE PollRun_ReturnsLast(_, _)
PollRun_ReturnsLast(run, elapsed) ==
    IF elapsed < timeout_seconds
      THEN IF RunInfoAt(run, elapsed).status \in TerminalStatuses
             THEN RunInfoAt(run, elapsed) @@ [waited |-> elapsed]
           ELSE PollRun_ReturnsLast(run, elapsed + run.latency + PollSleep)
    ELSE RunInfoAt(run, elapsed) @@ [waited |-> elapsed]

\* the while loop of ApifyService._wait_for_run_completion, entered `elapsed` seconds after
\* start_time; every get() takes run.latency seconds, every pause PollSleep seconds.
\* `waited` is the time at which the wait returns (a note of the model, not a key of the dict).
RECURSIVE PollRun(_, _)
PollRun(run, elapsed) ==
    IF elapsed < timeout_seconds
      THEN IF RunInfoAt(run, elapsed).status \in TerminalStatuses
             THEN RunInfoAt(run, elapsed) @@ [waited |-> elapsed]
           ELSE PollRun(run, elapsed + run.latency + PollSleep)
    ELSE [status |-> "TIMED_OUT", errorMessage |-> "Run timeout reached", waited |-> elapsed]

\* variant of the wait built on the loop that hands back the last record
_wait_for_run_completion_ReturnsLast(run) == PollRun_ReturnsLast(run, 0)

\* ApifyService._wait_for_run_completion
_wait_for_run_completion(run) == PollRun(run, 0)

\* f"Scraping failed: {run_info.get('errorMessage', 'Unknown error')}"
ScrapingFailedError(run_info) ==
    IF "errorMessage" \in DOMAIN run_info
      THEN IF run_info.errorMessage = "Run timeout reached"
             THEN "Scraping failed: Run timeout reached"
           ELSE "Scraping failed: Actor failed"
    ELSE "Scraping failed: Unknown error"

\* the files ApifyService.fetch_reviews writes during the call: the dump of the raw items,
\* named by asin and country (the name stands for the file; its content is the items)
DebugFiles(a, country, up) ==
    IF up.token_ok /\ ~up.call_raises
       /\ _wait_for_run_completion(up.run).status = "SUCCEEDED" /\ up.items # << >>
      THEN {<<"debug_apify_raw", a, country>>}
    ELSE {}

\* ApifyService.fetch_reviews; up is what the upstream service does during the call
ApifyFetchReviews(a, max_reviews, country, up) ==
    LET actual_max_reviews == Min(max_reviews, ApifyMaxReviews)
        reviews == _transform_junglee_reviews(up.items)
    IN  IF ~up.token_ok
          THEN [success |-> FALSE, error |-> "Apify token invalid", error_type |-> "invalid_token"]
        ELSE IF up.call_raises
          THEN [success |-> FALSE, error |-> "Apify error", error_type |-> "exception", asin |-> a]
        ELSE IF _wait_for_run_completion(up.run).status # "SUCCEEDED"
          THEN [success |-> FALSE,
                error |-> ScrapingFailedError(_wait_for_run_completion(up.run)),
                error_type |-> "scraping_failed", asin |-> a]
        ELSE IF reviews # << >>
          THEN [success |-> TRUE,
                reviews |-> Take(reviews, ApifyMaxReviews),
                total_reviews |-> Min(Len(reviews), ApifyMaxReviews),
                asin |-> a, country |-> country, api_source |-> "apify",
                max_reviews_limit |-> ApifyMaxReviews,
                debug |-> [raw_items_count |-> Len(up.items),
                           transformed_reviews_count |-> Len(reviews)]]
        ELSE [success |-> FALSE,
              error |-> "No reviews found in the scraped data",
              error_type |-> "no_reviews_found",
              asin |-> a, country |-> country,
              suggestion |-> "Check the debug file to see what data Apify returned"]


----------------------------------------------------------------------------
(* The synthetic generators.                                               *)

\* the outcomes of random.random() / random.choice() for the ratings, in tenths
MockRatings == {50, 30, 10}

\* the first template of the list the rating selects (amazon_scraper.py)
MockTemplate(rating) ==
    IF rating >= 40 THEN "Great product! Exactly what I needed. Highly recommend."
    ELSE IF rating = 30 THEN "It's okay. Does what it's supposed to do."
    ELSE "Disappointed with the quality. Not worth the price."

\* AmazonScraper._generate_mock_reviews; draw gives the random ratings
_generate_mock_reviews(a, count, draw) ==
    LET reviews == [i \in 1..count |->
                      LET rating == IF i = 1 THEN draw.first ELSE draw.rest
                      IN  [review_id |-> i - 1, asin |-> a, rating |-> rating,
                           review_text |-> MockTemplate(rating)]]
    IN  [success |-> TRUE, asin |-> a, total_reviews |-> Len(reviews),
         reviews |-> reviews, mock_data |-> TRUE, source |-> "mock"]

\* the text chosen for a rating (main.py)
MockText(rating) ==
    IF rating >= 40 THEN "Great product, highly recommend!"
    ELSE IF rating <= 20 THEN "Poor quality, disappointed."
    ELSE "It's okay, nothing special."

\* len([r for r in ratings if keep(r)])
CountRatings(ratings, keep(_)) == Cardinality({i \in DOMAIN ratings : keep(ratings[i])})

\* "rating_distribution" of generate_mock_reviews, ratings in tenths
MockRatingDistribution(ratings) ==
    ("5" :> CountRatings(ratings, LAMBDA r : r = 50)
     @@ "4" :> CountRatings(ratings, LAMBDA r : r = 40)
     @@ "3" :> CountRatings(ratings, LAMBDA r : r = 30)
     @@ "2" :> CountRatings(ratings, LAMBDA r : r = 20)
     @@ "1" :> CountRatings(ratings, LAMBDA r : r = 10))

\* "rating_distribution" of fetch_apify_reviews, ratings in tenths
MainRatingDistribution(ratings) ==
    ("5" :> CountRatings(ratings, LAMBDA r : r >= 45)
     @@ "4" :> CountRatings(ratings, LAMBDA r : 35 <= r /\ r < 45)
     @@ "3" :> CountRatings(ratings, LAMBDA r : 25 <= r /\ r < 35)
     @@ "2" :> CountRatings(ratings, LAMBDA r : 15 <= r /\ r < 25)
     @@ "1" :> CountRatings(ratings, LAMBDA r : r < 15))

\* ratings = [r['rating'] for r in reviews]
RatingsOf(reviews) == [i \in DOMAIN reviews |-> reviews[i].rating]

\* generate_mock_reviews of main.py; draw gives the random ratings
generate_mock_reviews(a, count, draw) ==
    LET reviews == [i \in 1..count |->
                      LET rating == IF i = 1 THEN draw.first ELSE draw.rest
                      IN  [id |-> i - 1, rating |-> rating, text |-> MockText(rating)]]
    IN  [success |-> TRUE, asin |-> a, reviews |-> reviews,
         total_reviews |-> Len(reviews),
         rating_distribution |-> MockRatingDistribution(RatingsOf(reviews)),
         data_source |-> "mock"]

MockDraws == [first : MockRatings, rest : MockRatings]


----------------------------------------------------------------------------
(* fetch_apify_reviews of main.py.                                         *)

\* "out of" in rating_str
ContainsOutOf(s) == s = "5.0 out of 5 stars"

\* the parsed rating of a raw item, in tenths; RatingRaises when float() raises
RatingRaises == -1

MainRating(item) ==
    LET rating_str == GetOr(item, "reviewRating", Str("0"))
    IN  IF rating_str.t = "str" /\ ContainsOutOf(rating_str.s)
          THEN IF FloatOk(Str(FirstToken(rating_str.s)))
                 THEN FloatOf(Str(FirstToken(rating_str.s))) ELSE RatingRaises
        ELSE IF Truthy(rating_str)
          THEN IF FloatOk(rating_str) THEN FloatOf(rating_str) ELSE RatingRaises
        ELSE 0

\* the Python value None in the text field of a review (a JSON null in
\* "reviewDescription"); no review text used here equals it
NullText == "<None>"

\* the review dict built from a raw item; the flag and the counter of an item are
\* kept as they come
MainReview(item) ==
    [id     |-> GetOr(item, "id", Str("")),
     title  |-> StrOf(GetOr(item, "reviewTitle", Str(""))),
     text   |-> IF GetOr(item, "reviewDescription", Str("")) = None THEN NullText
                ELSE StrOf(GetOr(item, "reviewDescription", Str(""))),
     rating |-> MainRating(item),
     author |-> StrOf(GetOr(item, "reviewAuthor", Str("Anonymous"))),
     date   |-> GetOr(item, "reviewDate", Str("")),
     verified |-> GetOr(item, "isVerified", FALSE),
     helpful_count |-> GetOr(item, "helpfulCount", 0)]

\* the loop over dataset_items: "Each item IS a review"
RECURSIVE MainExtract(_)
MainExtract(items) ==
    IF items = << >> THEN << >>
    ELSE LET item == Head(items)
             rest == MainExtract(Tail(items))
         IN  IF DOMAIN item \cap {"reviewTitle", "reviewDescription"} # {}
                  /\ MainRating(item) # RatingRaises
               THEN <<MainReview(item)>> \o rest
               ELSE rest

\* variant: the exception handler returns the failure without consulting the fallback
fetch_apify_reviews_NoFallbackOnException(a, max_reviews, fallback, up, draw) ==
    LET dataset_items == IF up.has_dataset THEN up.items ELSE << >>
        all_reviews == MainExtract(dataset_items)
    IN  IF up.call_raises
          THEN [success |-> FALSE, error |-> "exception"]
        ELSE IF dataset_items = << >>
          THEN IF fallback THEN generate_mock_reviews(a, max_reviews, draw)
               ELSE [success |-> FALSE, error |-> "No data from Apify"]
        ELSE IF all_reviews = << >> /\ fallback
          THEN generate_mock_reviews(a, max_reviews, draw)
        ELSE [success |-> TRUE, asin |-> a,
              reviews |-> Take(all_reviews, max_reviews),
              total_reviews |-> Len(all_reviews),
              rating_distribution |-> MainRatingDistribution(RatingsOf(all_reviews)),
              data_source |-> "apify"]

\* fetch_apify_reviews once the client exists; up is what the upstream does,
\* draw the random ratings of the generator, fallback is USE_MOCK_FALLBACK
fetch_apify_reviews(a, max_reviews, fallback, up, draw) ==
    LET dataset_items == IF up.has_dataset THEN up.items ELSE << >>
        all_reviews == MainExtract(dataset_items)
    IN  IF up.call_raises
          THEN IF fallback THEN generate_mock_reviews(a, max_reviews, draw)
               ELSE [success |-> FALSE, error |-> "exception"]
        ELSE IF dataset_items = << >>
          THEN IF fallback THEN generate_mock_reviews(a, max_reviews, draw)
               ELSE [success |-> FALSE, error |-> "No data from Apify"]
        ELSE IF all_reviews = << >> /\ fallback
          THEN generate_mock_reviews(a, max_reviews, draw)
        ELSE [success |-> TRUE, asin |-> a,
              reviews |-> Take(all_reviews, max_reviews),
              total_reviews |-> Len(all_reviews),
              rating_distribution |-> MainRatingDistribution(RatingsOf(all_reviews)),
              data_source |-> "apify"]

\* the number of reviews the primary source delivered in that call
MainPrimaryCount(up) ==
    IF up.call_raises \/ ~up.has_dataset THEN 0 ELSE Len(MainExtract(up.items))

\* whether that call ran the generator
MainUsesGenerator(fallback, up) ==
    LET dataset_items == IF up.has_dataset THEN up.items ELSE << >>
    IN  fallback /\ (up.call_raises \/ MainExtract(dataset_items) = << >>)

----------------------------------------------------------------------------
(* Inputs.                                                                 *)

\* USE_MOCK_DATA, APIFY_API_TOKEN set, USE_MOCK_FALLBACK
Configs == [use_mock : BOOLEAN, token : BOOLEAN, USE_MOCK_FALLBACK : BOOLEAN]

\* AmazonScraper.real_service is set
real_service == ~cfg.use_mock /\ cfg.token

\* apify_client of main.py is set
apify_client == cfg.token

ValidAsin == <<"B", "0", "8", "N", "5", "W", "R", "W", "N", "W">>

AsinInputs == { ValidAsin,
                <<"/", "d", "p", "/", "b", "0", "8", "n", "5", "w", "r", "w", "n", "w">>,
                <<"b", "0", "8", "n", "5", "w", "r", "w", "n", "w">>,
                <<"B", "0", "8", "N", "5", "-", "R", "W", "N", "W">>,
                << >> }

CountryInputs == {"IN", "UK"}

RequestedSizes == {1, MaxRequested}

\* lists of raw items: a first sample followed by copies of a second one
ItemLists(S, rest) == {<< >>} \cup {[i \in 1..n |-> IF i = 1 THEN a ELSE rest] :
                                     n \in 1..MaxItems, a \in S}

\* raw items as the Apify actor returns them to ApifyService
GreatItem == [review |-> [text |-> Str("Great product"), rating |-> Num(50)]]

ApifyItems == {
    GreatItem,
    [reviewTitle |-> Str("Works fine"), stars |-> Str("4")],
    [review |-> [text |-> Str("No rating given")]],
    [rating |-> Num(70), text |-> Str("")],
    [productTitle |-> Str("Widget")],
    [review |-> [body |-> Str("  "), rating |-> Str("abc")]],
    [data |-> [review |-> [content |-> Str("Nested"), starRating |-> Num(20)]]],
    [reviews |-> <<[reviewText |-> Str("Listed"), rating |-> Num(10)]>>] }

\* upstream runs: one that has ended when the wait begins, one that a later poll sees
\* ended, one that ends only after the ceiling, one that never ends
PromptRun == [ends |-> TRUE, after |-> 0, final |-> "SUCCEEDED", message |-> FALSE, latency |-> 0]
SlowRun == [ends |-> TRUE, after |-> 12, final |-> "SUCCEEDED", message |-> FALSE, latency |-> 3]
LateRun == [ends |-> TRUE, after |-> 400, final |-> "SUCCEEDED", message |-> FALSE, latency |-> 0]
EndlessRun == [ends |-> FALSE, after |-> 0, final |-> "RUNNING", message |-> FALSE, latency |-> 3]
ApifyUpstreams ==
    {[token_ok |-> FALSE, call_raises |-> FALSE, run |-> PromptRun, items |-> << >>],
     [token_ok |-> TRUE, call_raises |-> TRUE, run |-> PromptRun, items |-> << >>]}
    \cup {[token_ok |-> TRUE, call_raises |-> FALSE, run |-> run, items |-> << >>] :
            run \in {LateRun, EndlessRun}}
    \cup {[token_ok |-> TRUE, call_raises |-> FALSE, run |-> SlowRun, items |-> <<GreatItem>>]}
    \cup {[token_ok |-> TRUE, call_raises |-> FALSE, run |-> PromptRun, items |-> il] :
            il \in ItemLists(ApifyItems, GreatItem)}

\* raw items as the actor returns them to main.py
GreatMainItem == [reviewTitle |-> Str("Great"), reviewDescription |-> Str("Loved it"),
                  reviewRating |-> Str("5.0 out of 5 stars")]

MainItems == {
    GreatMainItem,
    [reviewDescription |-> Str("No rating")],
    [productTitle |-> Str("Widget")],
    [reviewTitle |-> Str("Bad"), reviewRating |-> Str("abc")],
    [reviewTitle |-> Str("Odd"), reviewRating |-> Num(70)] }

MainUpstreams ==
    {[call_raises |-> TRUE, has_dataset |-> FALSE, items |-> << >>],
     [call_raises |-> FALSE, has_dataset |-> FALSE, items |-> << >>]}
    \cup {[call_raises |-> FALSE, has_dataset |-> TRUE, items |-> il] :
            il \in ItemLists(MainItems, GreatMainItem)}


----------------------------------------------------------------------------
(* The state machine of one request.                                       *)

NoResult == << >>

\* one entry of the adapter's call log: the locale asked for and what the adapter returned
CallEntry(country, r) ==
    [country |-> country, success |-> r.success,
     total_reviews |-> IF "total_reviews" \in DOMAIN r THEN r.total_reviews ELSE 0]

\* the status of the run record the wait handed to ApifyService.fetch_reviews, "none" when
\* the call ended before the wait
WaitStatus(up) ==
    IF up.token_ok /\ ~up.call_raises THEN _wait_for_run_completion(up.run).status ELSE "none"

NoRequest == [via |-> "none"]

Init ==
    /\ cfg \in Configs
    /\ req = NoRequest
    /\ pc = "idle"
    /\ asin = NoAsin
    /\ countries = << >>
    /\ idx = 0
    /\ calls = << >>
    /\ errors = << >>
    /\ mock_calls = 0
    /\ result = NoResult
    /\ growth_data_store = << >>
    /\ files = {}

\* ReviewScraper.fetch_by_asin: clamps max_reviews and calls AmazonScraper.fetch_reviews
FetchByAsin ==
    /\ pc = "idle"
    /\ \E a \in AsinInputs, m \in RequestedSizes, c \in CountryInputs, mc \in BOOLEAN :
         req' = [via |-> "review_scraper", asin_or_url |-> a, requested |-> m,
                 max_reviews |-> Min(m, ApifyMaxReviews), country |-> c, multi_country |-> mc]
    /\ pc' = "fetch_reviews"
    /\ UNCHANGED <<cfg, asin, countries, idx, calls, errors, mock_calls, result, growth_data_store, files>>

\* AmazonScraper.fetch_reviews: "Invalid ASIN or URL"
FetchReviewsInvalid ==
    /\ pc = "fetch_reviews"
    /\ extract_asin(req.asin_or_url) = NoAsin
    /\ result' = [success |-> FALSE, error |-> "Invalid ASIN or URL", error_type |-> "invalid_input"]
    /\ pc' = "done"
    /\ UNCHANGED <<cfg, req, asin, countries, idx, calls, errors, mock_calls, growth_data_store, files>>

\* AmazonScraper.fetch_reviews: USE_MOCK_DATA
FetchReviewsMock ==
    /\ pc = "fetch_reviews"
    /\ extract_asin(req.asin_or_url) # NoAsin
    /\ cfg.use_mock
    /\ asin' = extract_asin(req.asin_or_url)
    /\ \E draw \in MockDraws :
         result' = [_generate_mock_reviews(asin', req.max_reviews, draw)
                      EXCEPT !.source = "mock"] @@ [country |-> req.country]
    /\ mock_calls' = mock_calls + 1
    /\ pc' = "done"
    /\ UNCHANGED <<cfg, req, countries, idx, calls, errors, growth_data_store, files>>

\* variant: the selected country is not removed from the default list
CountriesToTry_NoDedupe(country) ==
    LET default == <<"IN", "US", "UK", "DE">>
    IN  IF country # "" /\ country # "IN" THEN <<country>> \o default ELSE default

\* the priority list built for the multi-country search
CountriesToTry(country) ==
    LET default == <<"IN", "US", "UK", "DE">>
    IN  IF country # "" /\ country # "IN"
          THEN <<country>> \o SelectSeq(default, LAMBDA c : c # country)
          ELSE default

\* variant: the multi_country flag of the request is ignored
MultiCountrySearch_FlagIgnored(multi_country, has_service) == has_service

\* "Use multi-country search if enabled and real service is available"
MultiCountrySearch(multi_country, has_service) == multi_country /\ has_service

\* AmazonScraper.fetch_reviews: enters fetch_reviews_multiple_countries
FetchReviewsMulti ==
    /\ pc = "fetch_reviews"
    /\ extract_asin(req.asin_or_url) # NoAsin
    /\ ~cfg.use_mock
    /\ MultiCountrySearch(req.multi_country, real_service)
    /\ asin' = extract_asin(req.asin_or_url)
    /\ countries' = CountriesToTry(req.country)
    /\ idx' = 1
    /\ errors' = << >>
    /\ pc' = "multi"
    /\ UNCHANGED <<cfg, req, calls, mock_calls, result, growth_data_store, files>>

\* what AmazonScraper.fetch_reviews returns for the single-country adapter result
SingleCountryResult(r, a, country) ==
    IF ~r.success
      THEN [success |-> FALSE, error |-> r.error, error_type |-> r.error_type,
            suggestion |-> IF "suggestion" \in DOMAIN r THEN r.suggestion
                           ELSE "Please try again later.",
            asin |-> a, country |-> country]
    ELSE IF r.total_reviews = 0
      THEN [success |-> FALSE, error |-> "No reviews found for this product",
            error_type |-> "no_reviews",
            suggestion |-> "Please verify the ASIN is correct and try another product.",
            asin |-> a, country |-> country]
    ELSE [r EXCEPT !.country = country] @@ [source |-> "apify"]

\* AmazonScraper.fetch_reviews: single country search with the real service
FetchReviewsSingle ==
    /\ pc = "fetch_reviews"
    /\ extract_asin(req.asin_or_url) # NoAsin
    /\ ~cfg.use_mock
    /\ ~MultiCountrySearch(req.multi_country, real_service) /\ real_service
    /\ asin' = extract_asin(req.asin_or_url)
    /\ \E up \in ApifyUpstreams :
         LET r == ApifyFetchReviews(asin', req.max_reviews, req.country, up)
         IN  /\ calls' = Append(calls, CallEntry(req.country, r)
                                         @@ [run_status |-> WaitStatus(up)])
             /\ result' = SingleCountryResult(r, asin', req.country)
             /\ files' = files \cup DebugFiles(asin', req.country, up)
    /\ pc' = "done"
    /\ UNCHANGED <<cfg, req, countries, idx, errors, mock_calls, growth_data_store>>

\* AmazonScraper.fetch_reviews: neither API nor mock is configured
FetchReviewsNotConfigured ==
    /\ pc = "fetch_reviews"
    /\ extract_asin(req.asin_or_url) # NoAsin
    /\ ~cfg.use_mock
    /\ ~real_service
    /\ asin' = extract_asin(req.asin_or_url)
    /\ result' = [success |-> FALSE, error |-> "Review fetching service not configured",
                  error_type |-> "not_configured",
                  suggestion |-> "Contact administrator to configure review fetching service.",
                  asin |-> asin', country |-> req.country]
    /\ pc' = "done"
    /\ UNCHANGED <<cfg, req, countries, idx, calls, errors, mock_calls, growth_data_store, files>>

\* variant: an adapter exception is swallowed without a note
RecordFailure_ExceptionDropped(errs, country, r) ==
    IF "error_type" \in DOMAIN r /\ r.error_type = "exception" THEN errs
    ELSE Append(errs, [country |-> country,
                       error |-> IF "error" \in DOMAIN r THEN r.error ELSE "Unknown error"])

\* errors.append(f"{country}: {error_msg}")
RecordFailure(errs, country, r) ==
    Append(errs, [country |-> country,
                  error |-> IF "error" \in DOMAIN r THEN r.error ELSE "Unknown error"])

\* variant: a result with a single review does not end the loop
CountrySucceeded_OffByOne(r) ==
    r.success /\ (IF "total_reviews" \in DOMAIN r THEN r.total_reviews ELSE 0) > 1

\* the adapter result ends the loop
CountrySucceeded(r) == r.success /\ (IF "total_reviews" \in DOMAIN r THEN r.total_reviews ELSE 0) > 0

\* one iteration of the loop of fetch_reviews_multiple_countries
TryCountry ==
    /\ pc = "multi"
    /\ idx <= Len(countries)
    /\ LET country == countries[idx]
       IN  IF real_service
             THEN /\ \E up \in ApifyUpstreams :
                       LET r == ApifyFetchReviews(asin, req.max_reviews, country, up)
                       IN  /\ calls' = Append(calls, CallEntry(country, r)
                                                       @@ [run_status |-> WaitStatus(up)])
                           /\ files' = files \cup DebugFiles(asin, country, up)
                           /\ IF CountrySucceeded(r)
                                THEN /\ result' = r @@ [countries_tried |-> countries,
                                                        successful_country |-> country,
                                                        source |-> "apify"]
                                     /\ pc' = "done"
                                     /\ UNCHANGED <<idx, errors>>
                                ELSE /\ errors' = RecordFailure(errors, country, r)
                                     /\ idx' = idx + 1
                                     /\ UNCHANGED <<pc, result>>
                  /\ UNCHANGED mock_calls
             ELSE /\ \E draw \in MockDraws :
                       result' = [_generate_mock_reviews(asin, req.max_reviews, draw)
                                    EXCEPT !.source = "mock"]
                                 @@ [country |-> country, countries_tried |-> countries,
                                     successful_country |-> country]
                  /\ mock_calls' = mock_calls + 1
                  /\ pc' = "done"
                  /\ UNCHANGED <<idx, errors, calls, files>>
    /\ UNCHANGED <<cfg, req, asin, countries, growth_data_store>>

\* fetch_reviews_multiple_countries after the loop: every country failed
AllCountriesFailed ==
    /\ pc = "multi"
    /\ idx > Len(countries)
    /\ IF real_service
         THEN /\ result' = [success |-> FALSE,
                            error |-> "Failed to fetch reviews from all countries",
                            error_type |-> "all_countries_failed",
                            suggestion |-> "The product might not be available in these regions",
                            asin |-> asin,
                            countries_tried |-> countries,
                            country_errors |-> errors]
              /\ UNCHANGED mock_calls
         ELSE /\ \E draw \in MockDraws :
                   result' = [_generate_mock_reviews(asin, req.max_reviews, draw)
                                EXCEPT !.source = "mock"]
                             @@ [country |-> IF countries # << >> THEN countries[1] ELSE "IN",
                                 countries_tried |-> countries,
                                 successful_country |-> IF countries # << >> THEN countries[1] ELSE "IN"]
              /\ mock_calls' = mock_calls + 1
    /\ pc' = "done"
    /\ UNCHANGED <<cfg, req, asin, countries, idx, calls, errors, growth_data_store, files>>

\* analyze_product of main.py, up to the call of fetch_apify_reviews
AnalyzeProduct ==
    /\ pc = "idle"
    /\ \E a \in AsinInputs, m \in RequestedSizes, c \in CountryInputs :
         IF a = << >>
           THEN /\ result' = [raised |-> "HTTPException", status_code |-> 400,
                              detail |-> "ASIN is required"]
                /\ req' = [via |-> "main", asin_or_url |-> a, requested |-> m,
                           max_reviews |-> Min(m, MAX_REVIEWS), country |-> c]
                /\ pc' = "done"
           ELSE /\ req' = [via |-> "main", asin_or_url |-> a, requested |-> m,
                           max_reviews |-> Min(m, MAX_REVIEWS), country |-> c]
                /\ pc' = "fetch_apify_reviews"
                /\ UNCHANGED result
    /\ UNCHANGED <<cfg, asin, countries, idx, calls, errors, mock_calls, growth_data_store, files>>

\* fetch_apify_reviews of main.py, called by analyze_product
FetchApifyReviews ==
    /\ pc = "fetch_apify_reviews"
    /\ asin' = req.asin_or_url
    /\ IF ~apify_client
         THEN /\ \E draw \in MockDraws :
                   result' = generate_mock_reviews(asin', req.max_reviews, draw)
              /\ mock_calls' = mock_calls + 1
              /\ UNCHANGED calls
         ELSE \E up \in MainUpstreams, draw \in MockDraws :
                /\ result' = fetch_apify_reviews(asin', req.max_reviews,
                                                 cfg.USE_MOCK_FALLBACK, up, draw)
                /\ calls' = Append(calls, CallEntry(req.country,
                                       [success |-> MainPrimaryCount(up) > 0,
                                        total_reviews |-> MainPrimaryCount(up)])
                                       @@ [run_status |-> "none"])
                /\ mock_calls' = IF MainUsesGenerator(cfg.USE_MOCK_FALLBACK, up)
                                   THEN mock_calls + 1 ELSE mock_calls
    /\ pc' = "done"
    /\ UNCHANGED <<cfg, req, countries, idx, errors, growth_data_store, files>>

Next ==
    \/ FetchByAsin
    \/ FetchReviewsInvalid
    \/ FetchReviewsMock
    \/ FetchReviewsMulti
    \/ FetchReviewsSingle
    \/ FetchReviewsNotConfigured
    \/ TryCountry
    \/ AllCountriesFailed
    \/ AnalyzeProduct
    \/ FetchApifyReviews

Spec == Init /\ [][Next]_vars


----------------------------------------------------------------------------
(* EnhancedReviewAnalyzer._sanitize_single_review (app/services/analyzer.py) *)

\* the texts used here whose stripped length is below 5
ShortTexts == {"", "  ", "Bad", "Odd"}

\* "Sanitize rating": values outside 0..5 become the neutral 3.0
SanitizedRating(rating) == IF 0 <= rating /\ rating <= 50 THEN rating ELSE 30

\* the review passes the text validation
SanitizeAccepts(review) ==
    LET review_text == IF "review_text" \in DOMAIN review /\ review.review_text # ""
                         THEN review.review_text
                         ELSE IF "text" \in DOMAIN review THEN review.text ELSE ""
    IN  StripStr(review_text) \notin ShortTexts

----------------------------------------------------------------------------
(* Properties.                                                             *)

\* the result is a dict with success = true
IsSuccess(r) == "success" \in DOMAIN r /\ r.success

\* the result is a dict with success = false
IsFailure(r) == "success" \in DOMAIN r /\ ~r.success

\* the adapter returned success with at least one review
CallOk(c) == c.success /\ c.total_reviews >= 1

\* the request went through the multi-country search
InMultiSearch == countries # << >>

\* C1: in the multi-country search the locales are attempted one at a time in
\* priority order; the first call that returns success with at least one review
\* is the last call made, it ends the fetch, its result is returned with
\* successful_country set to that locale, and every earlier call failed.
C1_ShortCircuit ==
    InMultiSearch =>
        /\ Len(calls) <= Len(countries)
        /\ \A i \in 1..Len(calls) : calls[i].country = countries[i]
        /\ \A i \in 1..Len(calls) :
             CallOk(calls[i]) =>
                 /\ i = Len(calls)
                 /\ pc = "done"
                 /\ IsSuccess(result)
                 /\ result.successful_country = countries[i]
                 /\ result.total_reviews = calls[i].total_reviews
                 /\ \A k \in 1..(i - 1) : ~calls[k].success

C1_Witness ==
    /\ InMultiSearch /\ pc = "done"
    /\ Len(calls) = 2 /\ ~calls[1].success /\ CallOk(calls[2])
    /\ result.successful_country = countries[2]

\* C2: once the product id has been validated (asin is set) and with the primary
\* adapter configured, the number of
\* adapter calls never exceeds the length of the priority list when the
\* multi-country search is enabled, and is exactly one, for the preferred
\* locale, once a fetch without multi-country search has returned.
C2_CallBound ==
    /\ (req.via = "review_scraper" /\ real_service /\ asin # NoAsin) =>
         IF req.multi_country
           THEN InMultiSearch /\ Len(calls) <= Len(countries)
           ELSE /\ Len(calls) <= 1
                /\ pc = "done" => Len(calls) = 1 /\ calls[1].country = req.country
    /\ (req.via = "main" /\ apify_client /\ req.asin_or_url # << >> /\ pc = "done") =>
         Len(calls) = 1 /\ calls[1].country = req.country

C2_Witness ==
    /\ req.via = "review_scraper" /\ real_service /\ pc = "done"
    /\ ~req.multi_country
    /\ Len(calls) = 1 /\ ~calls[1].success /\ IsFailure(result)

\* every call of the multi-country search reported success = false
AllLocalesFailed ==
    /\ InMultiSearch /\ pc = "done"
    /\ \A i \in 1..Len(calls) : ~calls[i].success

C5_NoEmptySuccess ==
    (pc = "done" /\ IsSuccess(result)) => result.reviews # << >>

\* C6: in the multi-country loop every failed attempt appends exactly one error
\* note for its locale and the loop moves on to the next locale; a failure result
\* is returned only after every locale was attempted, and its per-locale error
\* list holds one note per attempted locale, in attempt order.
C6_ErrorNotes ==
    InMultiSearch =>
        LET failed == SelectSeq(calls, LAMBDA c : ~CallOk(c))
        IN  /\ Len(errors) = Len(failed)
            /\ \A i \in 1..Len(errors) :
                 errors[i].country = failed[i].country /\ errors[i].country = countries[i]
            /\ pc = "multi" => idx = Len(errors) + 1
            /\ (pc = "done" /\ IsFailure(result)) =>
                 /\ Len(calls) = Len(countries)
                 /\ result.country_errors = errors
                 /\ Len(result.country_errors) = Len(result.countries_tried)
                 /\ \A i \in 1..Len(errors) :
                      result.country_errors[i].country = result.countries_tried[i]

C6_Witness ==
    /\ InMultiSearch /\ pc = "done" /\ IsFailure(result)
    /\ \E i, j, k \in 1..Len(result.country_errors) :
         /\ result.country_errors[i].error = "Apify error"
         /\ result.country_errors[j].error = "Scraping failed: Run timeout reached"
         /\ result.country_errors[k].error = "No reviews found in the scraped data"

\* the identifier is not a valid fixed-length alphanumeric one and none can be extracted
InvalidIdentifier(s) ==
    /\ ~(Len(s) = AsinLen /\ \A i \in 1..Len(s) : IsAlnumChar(s[i]))
    /\ extract_asin(s) = NoAsin

\* the fetch was refused: an invalid_input result, or the HTTP 400 of the endpoint
Refused(r) ==
    \/ IsFailure(r) /\ "error_type" \in DOMAIN r /\ r.error_type = "invalid_input"
    \/ "raised" \in DOMAIN r /\ r.status_code = 400

\* C7: a fetch whose product identifier is invalid is refused as invalid input
\* before any adapter or generator is invoked.
C7_InvalidInputRefused ==
    (req.via # "none" /\ InvalidIdentifier(req.asin_or_url)) =>
        /\ calls = << >>
        /\ mock_calls = 0
        /\ pc = "done" => Refused(result)

\* C8: every result with success = false carries an error type, the list of
\* attempted locales and a suggestion text.
C8_StructuredFailure ==
    (pc = "done" /\ IsFailure(result)) =>
        {"error_type", "countries_tried", "suggestion"} \subseteq DOMAIN result

\* a rating within 1..5 stars
RatingInRange(rating) == 10 <= rating /\ rating <= 50

\* C9: every review of a fetch result, and every review that passes the
\* analyzer's sanitization, has a rating within 1..5.
C9_RatingInRange ==
    (pc = "done" /\ IsSuccess(result)) =>
        \A i \in 1..Len(result.reviews) :
            /\ RatingInRange(result.reviews[i].rating)
            /\ SanitizeAccepts(result.reviews[i]) =>
                 RatingInRange(SanitizedRating(result.reviews[i].rating))

\* the ceiling configured for the entry point of the request
ConfiguredCeiling == IF req.via = "main" THEN MAX_REVIEWS ELSE ApifyMaxReviews

\* C10: a successful fetch result never holds more reviews than
\* min(requested max_reviews, configured ceiling).
C10_AtMostRequested ==
    (pc = "done" /\ IsSuccess(result)) =>
        Len(result.reviews) <= Min(req.requested, ConfiguredCeiling)

----------------------------------------------------------------------------
(***************************************************************************)
(* BotDetector (app/services/bot_detector.py).                             *)
(*                                                                         *)
(* bot_score is kept in hundredths (0.6 = 60).  The increments are 0.1,    *)
(* 0.2, 0.3 and 0.4; every sum of them the code can form, rounded or not,  *)
(* compares with 0.3, 0.6 and 1.0 in binary floating point exactly as its  *)
(* decimal value does, so the integer arithmetic below is the code's.      *)
(***************************************************************************)

\* largest batch of reviews handed to the analysis
MaxBatch == 6

\* what analyze_review measures on (text + ' ' + title).lower().strip(), for
\* the texts used here (all with an empty title): its length, whether one of
\* suspicious_patterns matches, how many generic_phrases it contains, its
\* number of '!', its number of words and the count of its most frequent word
TextMeasure ==
    ("Arrived on time. Battery lasts two days and the strap feels sturdy so far."
        :> [len |-> 74, pattern |-> FALSE, generic |-> 0, bangs |-> 0, words |-> 14, max_freq |-> 1])
 @@ ("Battery lasts two days, strap is sturdy"
        :> [len |-> 39, pattern |-> FALSE, generic |-> 0, bangs |-> 0, words |-> 7, max_freq |-> 1])
 @@ ("Great product!"
        :> [len |-> 14, pattern |-> TRUE, generic |-> 1, bangs |-> 1, words |-> 2, max_freq |-> 1])
 @@ ("Perfect"
        :> [len |-> 7, pattern |-> TRUE, generic |-> 1, bangs |-> 0, words |-> 1, max_freq |-> 1])
 @@ ("Great product, excellent quality, highly recommend, fast shipping"
        :> [len |-> 65, pattern |-> FALSE, generic |-> 4, bangs |-> 0, words |-> 8, max_freq |-> 1])
 @@ ("good good good good product really good"
        :> [len |-> 39, pattern |-> FALSE, generic |-> 0, bangs |-> 0, words |-> 7, max_freq |-> 5])
 @@ ("Wow!!! Battery lasts two days!!! Strap feels sturdy so far."
        :> [len |-> 59, pattern |-> FALSE, generic |-> 0, bangs |-> 6, words |-> 10, max_freq |-> 1])
 @@ ("I love it, amazing"
        :> [len |-> 18, pattern |-> FALSE, generic |-> 1, bangs |-> 0, words |-> 4, max_freq |-> 1])
 @@ ("Good price and a good design"
        :> [len |-> 28, pattern |-> FALSE, generic |-> 0, bangs |-> 0, words |-> 6, max_freq |-> 2])
 @@ ("Poor quality"
        :> [len |-> 12, pattern |-> FALSE, generic |-> 0, bangs |-> 0, words |-> 2, max_freq |-> 1])
 @@ (""
        :> [len |-> 0, pattern |-> FALSE, generic |-> 0, bangs |-> 0, words |-> 0, max_freq |-> 0])

\* _is_suspicious_author on the lowercased author names used here
_is_suspicious_author(author) == author \in {"customer123", "user42"}

\* the list holding these elements, each computed once
AsList(seq) == SubSeq(seq, 1, Len(seq))

\* sum of the numbers of a sequence
RECURSIVE SumSeq(_)
SumSeq(s) == IF s = << >> THEN 0 ELSE Head(s) + SumSeq(Tail(s))

\* the nine heuristics of analyze_review, in the order the code tests them:
\* whether each one triggers, the indicator it appends and its increment.
\* text.isupper() is never true, the text having been lowercased.
BotSignals(review) ==
    LET m == TextMeasure[review.text]
    IN  << [on |-> m.len < 10, tag |-> "very_short", w |-> 30],
           [on |-> m.len < 30 /\ review.rating = 50, tag |-> "short_5star", w |-> 20],
           [on |-> m.pattern, tag |-> "suspicious_pattern", w |-> 40],
           [on |-> m.generic >= 3 /\ m.len < 100, tag |-> "too_generic", w |-> 30],
           [on |-> ~review.verified /\ review.rating \in {50, 10},
            tag |-> "unverified_extreme", w |-> 20],
           [on |-> review.helpful_count = 0 /\ m.len < 50, tag |-> "no_engagement", w |-> 10],
           [on |-> _is_suspicious_author(review.author), tag |-> "suspicious_author", w |-> 30],
           [on |-> m.bangs > 5, tag |-> "excessive_formatting", w |-> 20],
           [on |-> m.words > 5 /\ 10 * m.max_freq > 3 * m.words, tag |-> "repetitive", w |-> 30] >>

\* the signals that trigger, in order
Triggered(review) == SelectSeq(BotSignals(review), LAMBDA sig : sig.on)

\* "Cap bot_score at 1.0" dropped
CappedScore_NoCap(raw) == raw

\* "Cap bot_score at 1.0"
CappedScore(raw) == Min(raw, 100)

\* "Determine if likely bot"
BotThreshold == 60

\* the confidence word of bot_analysis
BotConfidence(score) == IF score >= 70 THEN "high" ELSE IF score >= 40 THEN "medium" ELSE "low"

\* BotDetector.analyze_review: the review with bot_score, is_bot_likely,
\* bot_indicators and bot_analysis added
analyze_review(review) ==
    LET hits == Triggered(review)
        bot_indicators == [i \in 1..Len(hits) |-> hits[i].tag]
        bot_score == CappedScore(SumSeq([i \in 1..Len(hits) |-> hits[i].w]))
    IN  [bot_score |-> bot_score,
         is_bot_likely |-> bot_score >= BotThreshold,
         bot_indicators |-> bot_indicators,
         bot_analysis |-> [score |-> bot_score, confidence |-> BotConfidence(bot_score),
                           indicators |-> bot_indicators]] @@ review

\* date_str.split('T')[0] on the dates used here
DatePart(date_str) == IF date_str = "2024-03-01T09:30:00" THEN "2024-03-01" ELSE date_str

\* review.get('date', '')
DateOf(review) == IF "date" \in DOMAIN review THEN review.date ELSE Str("")

\* the reviews that _detect_batch_patterns files under the date of review i;
\* a date that is not a string is filed nowhere
DateGroup(reviews, i) ==
    IF DateOf(reviews[i]).t # "str" THEN {}
    ELSE {j \in DOMAIN reviews :
            /\ DateOf(reviews[j]).t = "str"
            /\ DatePart(DateOf(reviews[j]).s) = DatePart(DateOf(reviews[i]).s)}

\* "5+ reviews same day" and "All same rating = suspicious"
BulkPosted(reviews, i) ==
    /\ Cardinality(DateGroup(reviews, i)) >= 5
    /\ \A j, k \in DateGroup(reviews, i) : reviews[j].rating = reviews[k].rating

\* variant: the bump replaces the score instead of raising it
BulkBump_Replaces(review) ==
    [review EXCEPT !.bot_indicators = Append(@, "bulk_posting_same_rating"),
                   !.bot_analysis.indicators = Append(@, "bulk_posting_same_rating"),
                   !.bot_score = 20,
                   !.is_bot_likely = FALSE]

\* what _detect_batch_patterns does to each review of a bulk-posted group;
\* bot_analysis.indicators is the same list object as bot_indicators, while
\* bot_analysis.score keeps the individual score
BulkBump(review) ==
    [review EXCEPT !.bot_indicators = Append(@, "bulk_posting_same_rating"),
                   !.bot_analysis.indicators = Append(@, "bulk_posting_same_rating"),
                   !.bot_score = Min(@ + 20, 100),
                   !.is_bot_likely = Min(review.bot_score + 20, 100) >= BotThreshold]

\* BotDetector._detect_batch_patterns
_detect_batch_patterns(reviews) ==
    [i \in DOMAIN reviews |-> IF BulkPosted(reviews, i) THEN BulkBump(reviews[i]) ELSE reviews[i]]

\* round(bot_count / len(reviews) * 100, 1), in tenths of a percent
BotPercentage(bot_count, total) == (2000 * bot_count + total) \div (2 * total)

\* "0.3 <= r.get('bot_score', 0) < 0.6"
IsSuspicious(r) == 30 <= r.bot_score /\ r.bot_score < 60

\* BotDetector.analyze_batch
analyze_batch(reviews) ==
    IF reviews = << >>
      THEN [analyzed_reviews |-> << >>,
            bot_statistics |-> [total_reviews |-> 0, bot_count |-> 0,
                                bot_percentage |-> 0, suspicious_count |-> 0]]
      ELSE LET each == AsList([i \in DOMAIN reviews |-> analyze_review(reviews[i])])
               analyzed == AsList(_detect_batch_patterns(each))
               genuine_reviews == SelectSeq(analyzed, LAMBDA r : ~r.is_bot_likely)
               bot_count == Cardinality({i \in DOMAIN analyzed : analyzed[i].is_bot_likely})
           IN  [analyzed_reviews |-> analyzed,
                genuine_reviews |-> genuine_reviews,
                bot_statistics |->
                    [total_reviews |-> Len(reviews),
                     genuine_count |-> Len(genuine_reviews),
                     bot_count |-> bot_count,
                     bot_percentage |-> BotPercentage(bot_count, Len(reviews)),
                     suspicious_count |->
                         Cardinality({i \in DOMAIN analyzed : IsSuspicious(analyzed[i])}),
                     filtered_count |-> bot_count]]

----------------------------------------------------------------------------
(* Batches for the bot detector, and the specification that scores them.   *)

\* a review as the fetchers return it (title is empty); rating in tenths
BotReview(text, rating, verified, helpful_count, author) ==
    [text |-> text, title |-> "", rating |-> rating, verified |-> verified,
     helpful_count |-> helpful_count, author |-> author]

\* the same review carrying a date
Dated(review, date) == [date |-> date] @@ review

\* scores 0.4 on its own, whatever its rating: no_engagement, suspicious_author
FortyReview(rating) ==
    BotReview("Battery lasts two days, strap is sturdy", rating, TRUE, 0, "customer123")

\* scores 0.0 on its own
GenuineReview ==
    BotReview("Arrived on time. Battery lasts two days and the strap feels sturdy so far.",
              40, TRUE, 3, "Priya")

\* the reviews batches are made of; between them every heuristic triggers
BotSamples ==
    { Dated(GenuineReview, Str("2024-03-01")),
      Dated(FortyReview(50), Str("2024-03-01")),
      Dated(FortyReview(50), Str("2024-03-01T09:30:00")),
      Dated(FortyReview(40), Str("2024-03-01")),
      Dated(FortyReview(50), Str("2024-03-02")),
      FortyReview(50),
      Dated(FortyReview(50), None),
      Dated(BotReview("Great product!", 50, FALSE, 0, "user42"), Str("2024-03-01")),
      Dated(BotReview("Perfect", 50, TRUE, 0, "Priya"), Str("2024-03-02")),
      Dated(BotReview("Great product, excellent quality, highly recommend, fast shipping",
                      40, TRUE, 2, "Priya"), Str("2024-03-02")),
      Dated(BotReview("good good good good product really good", 10, FALSE, 2, "Priya"),
            Str("2024-03-01")),
      Dated(BotReview("Wow!!! Battery lasts two days!!! Strap feels sturdy so far.",
                      50, FALSE, 3, "Priya"), Str("2024-03-01")) }

\* the batches: k copies of one review followed by copies of another, up to n reviews
Batches(S, n) ==
    {[i \in 1..len |-> IF i <= k THEN a ELSE b] :
        <<a, b, k, len>> \in {t \in S \X S \X (0..n) \X (0..n) : t[3] <= t[4]}}

\* the fetch machinery is not involved
FetchIdle ==
    /\ asin = NoAsin
    /\ countries = << >>
    /\ idx = 0
    /\ calls = << >>
    /\ errors = << >>
    /\ mock_calls = 0
    /\ growth_data_store = << >>
    /\ files = {}

NoConfig == << >>

BotInit ==
    /\ cfg = NoConfig
    /\ req \in {[via |-> "bot_detector", reviews |-> b] : b \in Batches(BotSamples, MaxBatch)}
    /\ pc = "analyze_batch"
    /\ result = NoResult
    /\ FetchIdle

\* bot_detector.analyze_batch(reviews)
AnalyzeBatch ==
    /\ pc = "analyze_batch"
    /\ result' = analyze_batch(req.reviews)
    /\ pc' = "done"
    /\ UNCHANGED <<cfg, req, asin, countries, idx, calls, errors, mock_calls, growth_data_store, files>>

BotNext == AnalyzeBatch

BotSpec == BotInit /\ [][BotNext]_vars

----------------------------------------------------------------------------
(* Properties of the bot detector.                                         *)

BotDone == req.via = "bot_detector" /\ pc = "done"

\* C11: after analyze_batch (individual scoring, then the batch pass) every
\* analysed review has 0 <= bot_score <= 1.0, and is flagged bot-likely if
\* and only if its final bot_score is at least 0.6.
C11_ScoreAndFlag ==
    BotDone =>
        \A i \in DOMAIN result.analyzed_reviews :
            LET r == result.analyzed_reviews[i]
            IN  /\ 0 <= r.bot_score /\ r.bot_score <= 100
                /\ r.is_bot_likely <=> r.bot_score >= 60

\* a batch where the bump lifted one review from 0.4 across the threshold
\* and was capped at 1.0 on another
C11_Witness ==
    /\ BotDone
    /\ \E i, j \in DOMAIN result.analyzed_reviews :
         LET r == result.analyzed_reviews[i]
             s == result.analyzed_reviews[j]
         IN  /\ r.bot_analysis.score = 40 /\ r.bot_score = 60 /\ r.is_bot_likely
             /\ s.bot_analysis.score = 100 /\ s.bot_score = 100 /\ s.is_bot_likely
             /\ "bulk_posting_same_rating" \in Range(s.bot_indicators)

\* the reviews of the batch with the date (day) and the rating of review i
SameDateSameRating(reviews, i) ==
    IF "date" \notin DOMAIN reviews[i] \/ reviews[i].date.t # "str" THEN {}
    ELSE {j \in DOMAIN reviews :
            /\ "date" \in DOMAIN reviews[j] /\ reviews[j].date.t = "str"
            /\ DatePart(reviews[j].date.s) = DatePart(reviews[i].date.s)
            /\ reviews[j].rating = reviews[i].rating}

\* C12: every review that belongs to a set of at least 5 reviews of the
\* batch sharing the same date and the same rating has its individual score
\* raised by 0.2 (capped at 1.0), gains the bulk-posting indicator and has
\* its flag recomputed against the threshold.
C12_BulkPostingBump ==
    BotDone =>
        \A i \in DOMAIN req.reviews :
            Cardinality(SameDateSameRating(req.reviews, i)) >= 5 =>
                LET r == result.analyzed_reviews[i]
                    own == analyze_review(req.reviews[i]).bot_score
                IN  /\ r.bot_score = Min(own + 20, 100)
                    /\ "bulk_posting_same_rating" \in Range(r.bot_indicators)
                    /\ r.is_bot_likely <=> r.bot_score >= 60

\* C13: the bot statistics agree with the annotated reviews: total is the
\* input size and is genuine count + bot count, bot count is the number of
\* flagged reviews, the genuine list is the unflagged reviews in input order,
\* and the suspicious count counts unflagged reviews only.
C13_StatsConsistent ==
    BotDone =>
        LET st == result.bot_statistics
            an == result.analyzed_reviews
        IN  /\ {"total_reviews", "genuine_count", "bot_count", "bot_percentage",
                "suspicious_count"} \subseteq DOMAIN st
            /\ "genuine_reviews" \in DOMAIN result
            /\ st.total_reviews = Len(req.reviews)
            /\ st.total_reviews = st.genuine_count + st.bot_count
            /\ st.bot_count = Cardinality({i \in DOMAIN an : an[i].is_bot_likely})
            /\ result.genuine_reviews = SelectSeq(an, LAMBDA r : ~r.is_bot_likely)
            /\ st.genuine_count = Len(result.genuine_reviews)
            /\ st.suspicious_count =
                 Cardinality({i \in DOMAIN an : ~an[i].is_bot_likely
                                               /\ 30 <= an[i].bot_score /\ an[i].bot_score < 60})

\* sanity: the same statement for non-empty batches
C13_NonEmptyStats == (BotDone /\ req.reviews # << >>) => C13_StatsConsistent

\* sanity: C12 with the code's own condition
C12_CodeCondition ==
    BotDone =>
        \A i \in DOMAIN req.reviews :
             LET r == result.analyzed_reviews[i]
                 own == analyze_review(req.reviews[i]).bot_score
             IN  IF BulkPosted(req.reviews, i)
                   THEN /\ r.bot_score = Min(own + 20, 100)
                        /\ "bulk_posting_same_rating" \in Range(r.bot_indicators)
                        /\ r.is_bot_likely <=> r.bot_score >= 60
                   ELSE r.bot_score = own

\* scenario C: six same-date rating-5 reviews that each score 0.4 all end flagged
C12_ScenarioC ==
    /\ BotDone
    /\ Len(req.reviews) = 6
    /\ \A i \in DOMAIN req.reviews :
         /\ req.reviews[i].rating = 50
         /\ analyze_review(req.reviews[i]).bot_score = 40
         /\ Cardinality(SameDateSameRating(req.reviews, i)) = 6
         /\ result.analyzed_reviews[i].is_bot_likely

----------------------------------------------------------------------------
(***************************************************************************)
(* Sentiment scoring.  The two scorers (the VADER lexicon and TextBlob)    *)
(* are libraries: a text is known here through what they return for it.   *)
(* Scores are in ten-thousandths (0.05 = 500): VADER rounds its compound   *)
(* score to four decimals.                                                 *)
(***************************************************************************)

\* compound scores of the lexicon scorer, on both sides of every threshold
Compounds == {-8000, -1500, -504, -500, -496, 0, 496, 500, 504, 1500, 8000}

\* polarities of the polarity/subjectivity scorer
Polarities == {-7000, -2500, 0, 2500, 7000}

\* the texts: what vader.polarity_scores(text) and TextBlob(text).sentiment return
ScoredTexts == [compound : Compounds, polarity : Polarities, subjectivity : {5000}]

\* abs()
Abs(x) == IF x < 0 THEN -x ELSE x

\* round(x, 3) of a value that is not halfway between two thousandths
Round3(x) == ((x + 5) \div 10) * 10

\* analyze_sentiment of main.py (the pos/neu/neg proportions of "scores"
\* are passed through and left out here)
analyze_sentiment(text) ==
    LET compound == text.compound
    IN  [sentiment |-> IF compound >= 500 THEN "positive"
                       ELSE IF compound <= -500 THEN "negative" ELSE "neutral",
         confidence |-> Abs(compound),
         scores |-> [compound |-> compound],
         polarity |-> text.polarity,
         subjectivity |-> text.subjectivity]

\* analyze_sentiment_enhanced of app/api/endpoints/analyze.py; confidence is
\* kept doubled: (abs(compound) + abs(polarity)) / 2 = confidence2 / 2
analyze_sentiment_enhanced(text) ==
    LET compound == text.compound
    IN  [sentiment |-> IF compound >= 500 THEN "positive"
                       ELSE IF compound <= -500 THEN "negative" ELSE "neutral",
         vader_compound |-> Round3(compound),
         textblob_polarity |-> Round3(text.polarity),
         confidence2 |-> Abs(compound) + Abs(text.polarity),
         subjectivity |-> Round3(text.subjectivity)]

\* EnhancedReviewAnalyzer._get_sentiment_label, on twice the score
_get_sentiment_label(score2) ==
    IF score2 > 2000 THEN "positive" ELSE IF score2 < -2000 THEN "negative" ELSE "neutral"

\* one entry of _analyze_sentiment_lightweight; combined_score is kept
\* doubled: (compound + polarity) / 2 = combined_score2 / 2
LightweightSentiment(text) ==
    LET combined_score2 == text.compound + text.polarity
    IN  [combined_score2 |-> combined_score2,
         vader_compound |-> text.compound,
         textblob_polarity |-> text.polarity,
         textblob_subjectivity |-> text.subjectivity,
         label |-> _get_sentiment_label(combined_score2)]

SentimentInit ==
    /\ cfg = NoConfig
    /\ req = NoRequest
    /\ pc = "idle"
    /\ result = NoResult
    /\ FetchIdle

\* main.py: analyze_sentiment(text)
AnalyzeSentiment ==
    /\ pc = "idle"
    /\ \E text \in ScoredTexts :
         /\ req' = [via |-> "analyze_sentiment", text |-> text]
         /\ result' = analyze_sentiment(text)
    /\ pc' = "done"
    /\ UNCHANGED <<cfg, asin, countries, idx, calls, errors, mock_calls, growth_data_store, files>>

\* analyze.py: analyze_sentiment_enhanced(text)
AnalyzeSentimentEnhanced ==
    /\ pc = "idle"
    /\ \E text \in ScoredTexts :
         /\ req' = [via |-> "analyze_sentiment_enhanced", text |-> text]
         /\ result' = analyze_sentiment_enhanced(text)
    /\ pc' = "done"
    /\ UNCHANGED <<cfg, asin, countries, idx, calls, errors, mock_calls, growth_data_store, files>>

\* analyzer.py: the body of the loop of _analyze_sentiment_lightweight
AnalyzeSentimentLightweight ==
    /\ pc = "idle"
    /\ \E text \in ScoredTexts :
         /\ req' = [via |-> "_analyze_sentiment_lightweight", text |-> text]
         /\ result' = LightweightSentiment(text)
    /\ pc' = "done"
    /\ UNCHANGED <<cfg, asin, countries, idx, calls, errors, mock_calls, growth_data_store, files>>

SentimentNext ==
    \/ AnalyzeSentiment
    \/ AnalyzeSentimentEnhanced
    \/ AnalyzeSentimentLightweight

SentimentSpec == SentimentInit /\ [][SentimentNext]_vars

\* the label a sentiment verdict carries
LabelOf(verdict) == IF "label" \in DOMAIN verdict THEN verdict.label ELSE verdict.sentiment

SentimentDone ==
    /\ pc = "done"
    /\ req.via \in {"analyze_sentiment", "analyze_sentiment_enhanced",
                    "_analyze_sentiment_lightweight"}

\* C14: the label is decided by the lexicon compound score c alone:
\* positive iff c >= 0.05, negative iff c <= -0.05, neutral otherwise,
\* whatever the polarity scorer returns.
C14_LabelFromCompound ==
    SentimentDone =>
        LabelOf(result) = IF req.text.compound >= 500 THEN "positive"
                          ELSE IF req.text.compound <= -500 THEN "negative"
                          ELSE "neutral"

\* what holds: the two endpoint scorers decide by the compound score alone
C14_EndpointScorers ==
    (SentimentDone /\ req.via # "_analyze_sentiment_lightweight") => C14_LabelFromCompound

----------------------------------------------------------------------------
(***************************************************************************)
(* Emotion scoring: extract_emotions of main.py and                        *)
(* NLPService.detect_emotions of app/services/free_ai_nlp.py.              *)
(* Emotion scores are in 600ths (1.0 = 600, 0.2 = 120, 0.15 = 90).         *)
(***************************************************************************)

\* largest list of texts handed to extract_emotions
MaxTexts == 3

\* the eight dimensions
Emotions == {"joy", "sadness", "anger", "fear", "surprise", "disgust", "trust", "anticipation"}

EmotionSeq == <<"joy", "sadness", "anger", "fear", "surprise", "disgust", "trust", "anticipation">>

\* emotion_scores = {emotion: 0.0 for emotion in emotion_keywords.keys()}
ZeroEmotions == [e \in Emotions |-> 0]

\* the texts used here, with the polarity TextBlob returns for each
\* (extract_emotions uses its sign only)
EmotionTexts ==
    { [s |-> "", polarity |-> 0],
      [s |-> "Arrived on time", polarity |-> 0],
      [s |-> "good", polarity |-> 7000],
      [s |-> "boring", polarity |-> -10000],
      [s |-> "I love it, amazing", polarity |-> 5500],
      [s |-> "Terrible and disappointed", polarity |-> -8750] }

\* sum(1 for keyword in keywords if keyword in text_lower) with the
\* emotion_keywords of extract_emotions, for the texts used here
MainEmotionMatches ==
    ("" :> << >>)
 @@ ("Arrived on time" :> << >>)
 @@ ("good" :> << >>)
 @@ ("boring" :> << >>)
 @@ ("I love it, amazing" :> [joy |-> 2])
 @@ ("Terrible and disappointed" :> [sadness |-> 2])
 @@ ("Good price and a good design" :> << >>)
 @@ ("Poor quality" :> [sadness |-> 1])
 @@ ("Great product!" :> [joy |-> 1])
 @@ (NullText :> << >>)

\* the same count with the emotion_keywords of detect_emotions
NlpEmotionMatches ==
    ("" :> << >>)
 @@ ("Arrived on time" :> << >>)
 @@ ("good" :> << >>)
 @@ ("boring" :> << >>)
 @@ ("I love it, amazing" :> [joy |-> 2])
 @@ ("Terrible and disappointed" :> [anger |-> 1, sadness |-> 1])

\* the number of keywords of emotion e found in text s
Matches(table, s, e) == IF e \in DOMAIN table[s] THEN table[s][e] ELSE 0

\* no keyword of any emotion is found in any of the texts
NoKeywordMatch(table, texts) ==
    \A i \in DOMAIN texts : \A e \in Emotions : Matches(table, texts[i].s, e) = 0

\* "Apply sentiment bias for more realistic scores"
SentimentBias(scores, avg_sentiment) ==
    IF avg_sentiment > 0
      THEN [scores EXCEPT !.joy = Min(600, @ + 120), !.trust = Min(600, @ + 90)]
      ELSE IF avg_sentiment < 0
        THEN [scores EXCEPT !.sadness = Min(600, @ + 90), !.anger = Min(600, @ + 60)]
        ELSE scores

\* extract_emotions of main.py
extract_emotions(texts) ==
    IF texts = << >> THEN ZeroEmotions
    ELSE LET n == Len(texts)
             count(e) == SumSeq([i \in 1..n |-> Matches(MainEmotionMatches, texts[i].s, e)])
             total_matches == SumSeq([k \in 1..Len(EmotionSeq) |-> count(EmotionSeq[k])])
             \* min(1.0, emotion_scores[emotion] / (len(texts) * 2))
             normalized == [e \in Emotions |->
                               IF total_matches > 0 THEN Min(600, (300 * count(e)) \div n)
                               ELSE 600 * count(e)]
             \* the sign of the mean polarity is the sign of the sum
             avg_sentiment == SumSeq([i \in 1..n |-> texts[i].polarity])
         IN  SentimentBias(normalized, avg_sentiment)

\* what the emotion classifier of the transformers pipeline may do with a
\* text: raise, or return a score per label
ClassifierOutputs ==
    { << >>,
      <<[label |-> "joy", score |-> 540], [label |-> "neutral", score |-> 60]>>,
      <<[label |-> "love", score |-> 300], [label |-> "optimism", score |-> 240],
        [label |-> "sadness", score |-> 60]>> }

ClassifierRaises == << >>

\* the loop over the classifier's results
RECURSIVE ApplyLabels(_, _)
ApplyLabels(emotions, results) ==
    IF results = << >> THEN emotions
    ELSE LET r == Head(results)
             next == IF r.label \in Emotions THEN [emotions EXCEPT ![r.label] = r.score]
                     ELSE IF r.label = "love"
                       THEN [emotions EXCEPT !.joy = IF @ >= r.score THEN @ ELSE r.score]
                     ELSE IF r.label = "optimism"
                       THEN [emotions EXCEPT !.anticipation = IF @ >= r.score THEN @ ELSE r.score]
                     ELSE emotions
         IN  ApplyLabels(next, Tail(results))

\* NLPService.detect_emotions
detect_emotions(transformer_emotion, text, classified) ==
    IF transformer_emotion
      THEN IF classified = ClassifierRaises THEN ZeroEmotions
           ELSE ApplyLabels(ZeroEmotions, classified)
      ELSE [e \in Emotions |-> Min(120 * Matches(NlpEmotionMatches, text.s, e), 600)]

\* the lists of texts: up to n texts
TextLists(S, n) == UNION {[1..k -> S] : k \in 0..n}

EmotionInit ==
    /\ cfg \in [transformer_emotion : BOOLEAN]
    /\ req = NoRequest
    /\ pc = "idle"
    /\ result = NoResult
    /\ FetchIdle

\* main.py: extract_emotions(texts)
ExtractEmotions ==
    /\ pc = "idle"
    /\ \E texts \in TextLists(EmotionTexts, MaxTexts) :
         /\ req' = [via |-> "extract_emotions", texts |-> texts]
         /\ result' = extract_emotions(texts)
    /\ pc' = "done"
    /\ UNCHANGED <<cfg, asin, countries, idx, calls, errors, mock_calls, growth_data_store, files>>

\* free_ai_nlp.py: NLPService.detect_emotions(text)
DetectEmotions ==
    /\ pc = "idle"
    /\ \E text \in EmotionTexts, classified \in ClassifierOutputs :
         /\ req' = [via |-> "detect_emotions", texts |-> <<text>>]
         /\ result' = detect_emotions(cfg.transformer_emotion, text, classified)
    /\ pc' = "done"
    /\ UNCHANGED <<cfg, asin, countries, idx, calls, errors, mock_calls, growth_data_store, files>>

EmotionNext ==
    \/ ExtractEmotions
    \/ DetectEmotions

EmotionSpec == EmotionInit /\ [][EmotionNext]_vars

\* the keyword table of the scorer that was called
KeywordsOf(via) == IF via = "extract_emotions" THEN MainEmotionMatches ELSE NlpEmotionMatches

EmotionDone == pc = "done" /\ req.via \in {"extract_emotions", "detect_emotions"}

\* C15: whenever no emotion keyword matches anywhere in the input (an empty
\* string and an empty list of texts included), the scorer returns the
\* all-zero 8-dimension vector, whatever the polarity of the text.
C15_NoKeywordAllZero ==
    (EmotionDone /\ NoKeywordMatch(KeywordsOf(req.via), req.texts)) => result = ZeroEmotions

\* what holds: the vector is all zero when, besides, the keyword scorer ran
\* and the polarities of the texts do not sum to a positive or negative value
C15_NoKeywordNoPolarity ==
    ( /\ EmotionDone
      /\ NoKeywordMatch(KeywordsOf(req.via), req.texts)
      /\ req.via = "detect_emotions" => ~cfg.transformer_emotion
      /\ SumSeq([i \in DOMAIN req.texts |-> req.texts[i].polarity]) = 0 )
    => result = ZeroEmotions

\* the empty string and the empty list do give the all-zero vector
C15_EmptyInputs ==
    /\ EmotionDone
    /\ req.texts \in {<< >>, <<[s |-> "", polarity |-> 0]>>}
    /\ result = ZeroEmotions

----------------------------------------------------------------------------
(***************************************************************************)
(* Theme extraction: extract_themes / simple_theme_extraction of main.py   *)
(* and ThemeClusterer.extract_themes of app/services/clustering.py.        *)
(* TF-IDF and KMeans are libraries: what they return for a corpus (the     *)
(* number of texts labelled with each cluster, or an exception) is chosen  *)
(* by the action that calls them.                                          *)
(***************************************************************************)

\* largest corpus handed to theme extraction
MaxCorpus == 5

\* "if len(texts) < 5: return simple_theme_extraction(texts)" and n_clusters = min(5, len(texts))
MinClusterTexts == 5

\* the texts used here
ThemeTexts == {"", "Nice", "Lovely design", "Good price and a good design", "Poor quality"}

\* theme_keywords of simple_theme_extraction, in dict order, restricted to
\* the themes the texts used here can mention
SimpleThemeSeq == <<"Quality", "Price", "Design">>

\* any(kw in text.lower() for kw in keywords), for the texts used here
SimpleThemeMentions ==
    ("" :> {}) @@ ("Nice" :> {}) @@ ("Lovely design" :> {"Design"})
 @@ ("Good price and a good design" :> {"Price", "Design"})
 @@ ("Poor quality" :> {"Quality"})
 @@ ("I love it, amazing" :> {})
 @@ ("Great product!" :> {}) @@ (NullText :> {})

\* pos > neg, neg > pos or neither, counting positive_words and negative_words
SimpleTextSentiment ==
    ("" :> "neutral") @@ ("Nice" :> "neutral") @@ ("Lovely design" :> "positive")
 @@ ("Good price and a good design" :> "positive")
 @@ ("Poor quality" :> "negative")
 @@ ("I love it, amazing" :> "positive")
 @@ ("Great product!" :> "positive") @@ (NullText :> "neutral")

\* theme_patterns of _mock_themes, in dict order, restricted likewise
MockThemeSeq == <<"Quality & Performance", "Price & Value", "Design & Appearance">>

\* any(keyword in text for keyword in keywords), for the texts used here
MockThemeMentions ==
    ("" :> {}) @@ ("Nice" :> {}) @@ ("Lovely design" :> {"Design & Appearance"})
 @@ ("Good price and a good design" :> {"Price & Value", "Design & Appearance"})
 @@ ("Poor quality" :> {"Quality & Performance"})

\* the count of a theme, whichever extractor named the field
MentionsOf(theme) == IF "mentions" \in DOMAIN theme THEN theme.mentions ELSE theme.size

\* sorted(themes, key=lambda x: x["mentions"], reverse=True): stable
RECURSIVE InsertByMentions(_, _)
InsertByMentions(theme, sorted) ==
    IF sorted = << >> THEN <<theme>>
    ELSE IF Head(sorted).mentions >= theme.mentions
           THEN <<Head(sorted)>> \o InsertByMentions(theme, Tail(sorted))
           ELSE <<theme>> \o sorted

RECURSIVE SortByMentions(_)
SortByMentions(themes) ==
    IF themes = << >> THEN << >>
    ELSE InsertByMentions(themes[Len(themes)], SortByMentions(SubSeq(themes, 1, Len(themes) - 1)))

\* the iteration orders a set of the three labels may have (string hashing)
LabelOrders == { <<"positive", "negative", "neutral">>, <<"neutral", "negative", "positive">> }

\* max(set(sentiment_scores), key=sentiment_scores.count): the first label,
\* in the set's iteration order, among the most frequent ones
MajorityLabel(labels, order) ==
    LET count(l) == Cardinality({i \in DOMAIN labels : labels[i] = l})
        best == {l \in Range(order) : count(l) > 0 /\ \A m \in Range(order) : count(m) <= count(l)}
    IN  order[CHOOSE k \in DOMAIN order : order[k] \in best /\ \A j \in 1..(k - 1) : order[j] \notin best]

\* simple_theme_extraction of main.py
simple_theme_extraction(texts, order) ==
    LET theme_texts(name) == SelectSeq(texts, LAMBDA text : name \in SimpleThemeMentions[text])
        found == SelectSeq(SimpleThemeSeq, LAMBDA name : Len(theme_texts(name)) > 0)
        themes == [k \in 1..Len(found) |->
                     [theme |-> found[k],
                      mentions |-> Len(theme_texts(found[k])),
                      sentiment |->
                          MajorityLabel([i \in 1..Len(theme_texts(found[k])) |->
                                            SimpleTextSentiment[theme_texts(found[k])[i]]], order)]]
    IN  Take(SortByMentions(themes), 5)

\* TfidfVectorizer(stop_words='english').fit_transform raises "empty
\* vocabulary" when no text holds a word that is not a stop word
EmptyVocabulary(texts) == \A i \in DOMAIN texts : texts[i] = ""

\* the ways of labelling n texts with k clusters, as the number of texts per cluster
RECURSIVE ClusterSizes(_, _)
ClusterSizes(n, k) ==
    IF k = 0 THEN IF n = 0 THEN {<< >>} ELSE {}
    ELSE UNION {{<<first>> \o rest : rest \in ClusterSizes(n - first, k - 1)} : first \in 0..n}

\* the clustering fails (fit_transform, KMeans or the import raises)
ClusteringRaises == << >>

\* what TF-IDF and KMeans may do with the texts for k clusters: raise on an
\* empty vocabulary, otherwise label the texts in any way
Clusterings(texts, k) ==
    IF EmptyVocabulary(texts) \/ k < 1 THEN {ClusteringRaises} ELSE ClusterSizes(Len(texts), k)

\* the names main.py forms from the top terms of the clusters, and the
\* sentiment it reads off each name ("good"/"great", "bad"/"poor")
ClusterThemes ==
    << [theme |-> "Battery Life", sentiment |-> "neutral"],
       [theme |-> "Good Quality", sentiment |-> "positive"],
       [theme |-> "Poor Packaging", sentiment |-> "negative"],
       [theme |-> "Fast Delivery", sentiment |-> "neutral"],
       [theme |-> "Screen Size", sentiment |-> "neutral"] >>

\* extract_themes of main.py
extract_themes(texts, clustering, order) ==
    IF Len(texts) < MinClusterTexts \/ clustering = ClusteringRaises
      THEN simple_theme_extraction(texts, order)
      ELSE SortByMentions([c \in 1..Len(clustering) |->
                              [theme |-> ClusterThemes[c].theme, mentions |-> clustering[c],
                               sentiment |-> ClusterThemes[c].sentiment]])

\* "if len(reviews) < num_clusters: num_clusters = max(1, len(reviews) // 2)"
EffectiveClusters(n, num_clusters) ==
    IF n < num_clusters THEN (IF n \div 2 >= 1 THEN n \div 2 ELSE 1) ELSE num_clusters

\* ThemeClusterer._mock_themes
_mock_themes(reviews) ==
    IF reviews = << >> THEN << >>
    ELSE LET ids(name) == [i \in 1..Len(SelectSeq(reviews, LAMBDA r : name \in MockThemeMentions[r.content])) |->
                             SelectSeq(reviews, LAMBDA r : name \in MockThemeMentions[r.content])[i].id]
             found == SelectSeq(MockThemeSeq, LAMBDA name : Len(ids(name)) > 0)
         IN  IF found # << >>
               THEN [k \in 1..Len(found) |->
                       [id |-> k - 1, theme |-> found[k], reviews |-> ids(found[k]),
                        sentiment_score |-> [num |-> 35, den |-> 1], size |-> Len(ids(found[k]))]]
               ELSE << [id |-> 0, theme |-> "General Feedback",
                        reviews |-> [i \in 1..Len(reviews) |-> reviews[i].id],
                        sentiment_score |-> [num |-> 30, den |-> 1], size |-> Len(reviews)] >>

\* the reviews KMeans labelled with cluster c: here the clusters are
\* consecutive runs of the corpus
ClusterMembers(reviews, clustering, c) ==
    LET before == SumSeq(SubSeq(clustering, 1, c - 1))
    IN  SubSeq(reviews, before + 1, before + clustering[c])

\* ThemeClusterer.extract_themes; sentiment_score, the mean rating of the
\* cluster, is kept as the fraction num/den (keywords, TF-IDF terms, are
\* left out)
ThemeClusterer_extract_themes(reviews, num_clusters, clustering) ==
    LET k == EffectiveClusters(Len(reviews), num_clusters)
    IN  IF reviews = << >> THEN << >>
        ELSE IF \/ clustering = ClusteringRaises
                \/ \E i \in DOMAIN reviews : reviews[i].rating.t # "num"
          THEN _mock_themes(reviews)
          ELSE LET kept == SelectSeq([c \in 1..k |-> c], LAMBDA c : clustering[c] > 0)
               IN  [j \in 1..Len(kept) |->
                      LET members == ClusterMembers(reviews, clustering, kept[j])
                      IN  [id |-> kept[j] - 1,
                           theme |-> ClusterThemes[kept[j]].theme,
                           reviews |-> [i \in 1..Len(members) |-> members[i].id],
                           sentiment_score |->
                               [num |-> SumSeq([i \in 1..Len(members) |-> members[i].rating.n]),
                                den |-> Len(members)],
                           size |-> Len(members)]]

\* the reviews ThemeClusterer is given; one rating is missing (None)
ThemeReviews ==
    { [id |-> "r1", content |-> "Lovely design", rating |-> Num(50)],
      [id |-> "r2", content |-> "Good price and a good design", rating |-> Num(40)],
      [id |-> "r3", content |-> "Poor quality", rating |-> Num(20)],
      [id |-> "r4", content |-> "", rating |-> Num(30)],
      [id |-> "r5", content |-> "Good price and a good design", rating |-> None] }

\* desiredThemeCount: ThemeClusterer's num_clusters (5 is its default)
ThemeCounts == {1, 2, 3, 5}

ThemeInit ==
    /\ cfg = NoConfig
    /\ req = NoRequest
    /\ pc = "idle"
    /\ result = NoResult
    /\ FetchIdle

\* main.py: extract_themes(texts, sentiment_counts)
ExtractThemes ==
    /\ pc = "idle"
    /\ \E texts \in Batches(ThemeTexts, MaxCorpus), order \in LabelOrders :
         \E clustering \in Clusterings(texts, Min(MinClusterTexts, Len(texts))) :
            /\ req' = [via |-> "extract_themes", corpus |-> texts, desired |-> 5]
            /\ result' = extract_themes(texts, clustering, order)
    /\ pc' = "done"
    /\ UNCHANGED <<cfg, asin, countries, idx, calls, errors, mock_calls, growth_data_store, files>>

\* clustering.py: ThemeClusterer.extract_themes(reviews, num_clusters)
ClusterThemesOf ==
    /\ pc = "idle"
    /\ \E reviews \in Batches(ThemeReviews, MaxCorpus), num_clusters \in ThemeCounts :
         \E clustering \in Clusterings([i \in DOMAIN reviews |-> reviews[i].content],
                                       EffectiveClusters(Len(reviews), num_clusters)) :
            /\ req' = [via |-> "ThemeClusterer.extract_themes", corpus |-> reviews,
                       desired |-> num_clusters]
            /\ result' = ThemeClusterer_extract_themes(reviews, num_clusters, clustering)
    /\ pc' = "done"
    /\ UNCHANGED <<cfg, asin, countries, idx, calls, errors, mock_calls, growth_data_store, files>>

ThemeNext ==
    \/ ExtractThemes
    \/ ClusterThemesOf

ThemeSpec == ThemeInit /\ [][ThemeNext]_vars

ThemeDone == pc = "done" /\ req.via \in {"extract_themes", "ThemeClusterer.extract_themes"}

\* the list holds at most n themes, in non-increasing order of mentions
RankedThemes(themes, n) ==
    /\ Len(themes) <= n
    /\ \A i, j \in DOMAIN themes : i < j => MentionsOf(themes[i]) >= MentionsOf(themes[j])

\* C16: for every corpus and desiredThemeCount, theme extraction returns a
\* list of at most desiredThemeCount themes ordered by non-increasing
\* mention count, and the empty list for an empty corpus.
C16_RankedThemes ==
    ThemeDone =>
        /\ RankedThemes(result, req.desired)
        /\ req.corpus = << >> => result = << >>

\* what holds: extract_themes of main.py returns at most 5 themes in
\* non-increasing order of mentions, and no theme for an empty corpus
C16_MainThemes ==
    (ThemeDone /\ req.via = "extract_themes") =>
        /\ RankedThemes(result, 5)
        /\ req.corpus = << >> => result = << >>

\* main.py clustered a corpus of five texts into themes of different sizes
C16_MainWitness ==
    /\ ThemeDone /\ req.via = "extract_themes"
    /\ Len(req.corpus) = 5
    /\ Len(result) = 5
    /\ result[1].theme = "Poor Packaging" /\ result[1].mentions = 3

----------------------------------------------------------------------------
(***************************************************************************)
(* The analysis pipeline: analyze_reviews of main.py, with the helpers it  *)
(* calls, and extract_review_samples of app/api/endpoints/analyze.py.     *)
(* Percentages are kept as the pair the code divides (count, total).       *)
(***************************************************************************)

\* what vader.polarity_scores and TextBlob(...).sentiment return for
\* f"{title} {text}" of the reviews used here (the title is empty; a None
\* text is formatted as "None")
ReviewScores ==
    ("I love it, amazing"           :> [compound |-> 8402, polarity |-> 5500, subjectivity |-> 7500])
 @@ ("Good price and a good design" :> [compound |-> 7003, polarity |-> 7000, subjectivity |-> 6000])
 @@ ("Poor quality"                 :> [compound |-> -4767, polarity |-> -4000, subjectivity |-> 6000])
 @@ (""                             :> [compound |-> 0, polarity |-> 0, subjectivity |-> 0])
 @@ ("Great product!"               :> [compound |-> 6588, polarity |-> 10000, subjectivity |-> 7500])
 @@ (NullText                       :> [compound |-> 0, polarity |-> 0, subjectivity |-> 0])

\* re.findall(r'\b[a-z]+\b', ...) of the lowercased text, without the stop
\* words and the words of one or two letters
TextWords ==
    ("I love it, amazing"           :> <<"love", "amazing">>)
 @@ ("Good price and a good design" :> <<"good", "price", "good", "design">>)
 @@ ("Poor quality"                 :> <<"poor", "quality">>)
 @@ (""                             :> << >>)
 @@ ("Great product!"               :> <<"great", "product">>)
 @@ (NullText                       :> <<"none">>)

\* extract_keywords(texts, top_n=15)
TopKeywords == 15

\* the concatenation of a sequence of sequences
RECURSIVE Flatten(_)
Flatten(seqs) == IF seqs = << >> THEN << >> ELSE Head(seqs) \o Flatten(Tail(seqs))

\* the distinct elements of a sequence, in order of first occurrence
\* (the key order of Counter(words))
RECURSIVE Distinct(_)
Distinct(words) ==
    IF words = << >> THEN << >>
    ELSE LET init == Distinct(SubSeq(words, 1, Len(words) - 1))
             last == words[Len(words)]
         IN  IF last \in Range(init) THEN init ELSE Append(init, last)

\* Counter.most_common: sorted by count, largest first, ties in key order
RECURSIVE InsertByFrequency(_, _)
InsertByFrequency(entry, sorted) ==
    IF sorted = << >> THEN <<entry>>
    ELSE IF Head(sorted).frequency >= entry.frequency
           THEN <<Head(sorted)>> \o InsertByFrequency(entry, Tail(sorted))
           ELSE <<entry>> \o sorted

RECURSIVE MostCommon(_)
MostCommon(entries) ==
    IF entries = << >> THEN << >>
    ELSE InsertByFrequency(entries[Len(entries)],
                           MostCommon(SubSeq(entries, 1, Len(entries) - 1)))

\* extract_keywords of main.py, on the texts of the given reviews
extract_keywords(texts, top_n) ==
    LET words == Flatten([i \in DOMAIN texts |-> TextWords[texts[i]]])
        keys == Distinct(words)
        word_freq == [k \in DOMAIN keys |->
                        [word |-> keys[k],
                         frequency |-> Cardinality({i \in DOMAIN words : words[i] = keys[k]})]]
    IN  Take(MostCommon(word_freq), top_n)

Labels == {"positive", "neutral", "negative"}

\* pd.Series(sentiments).value_counts().to_dict(), read with .get(label, 0)
SentimentCounts(sentiments) ==
    [l \in Labels |-> Cardinality({i \in DOMAIN sentiments : sentiments[i] = l})]

\* the first n elements of the reviews carrying the label, in input order:
\* [r for r in analyzed if r.get("sentiment") == label][:3]
FirstLabelled(analyzed, label, n) ==
    Take(SelectSeq(analyzed, LAMBDA r : r.sentiment = label), n)

\* review_samples = {...}: 3 is written in the slices
SampleSize == 3

\* generate_summaries of main.py; the sentences are kept as the values
\* they are formatted from
generate_summaries(reviews, sentiment_counts, keywords, themes) ==
    LET total == Len(reviews)
        positive_count == sentiment_counts["positive"]
        negative_count == sentiment_counts["negative"]
        positive_reviews == SelectSeq(reviews, LAMBDA r : r.sentiment = "positive")
        negative_reviews == SelectSeq(reviews, LAMBDA r : r.sentiment = "negative")
        negative_themes == Take(SelectSeq(themes, LAMBDA t : t.sentiment = "negative"), 3)
    IN  IF total = 0
          THEN [overall |-> [text |-> "No reviews available for analysis."],
                positive_highlights |-> [text |-> "N/A"],
                negative_highlights |-> [text |-> "N/A"]]
          ELSE [overall |->
                    [total |-> total,
                     sentiment_desc |-> IF positive_count > negative_count THEN "positive"
                                        ELSE IF negative_count > positive_count THEN "negative"
                                        ELSE "mixed",
                     counts |-> sentiment_counts,
                     top_keywords |-> [k \in 1..Min(5, Len(keywords)) |-> keywords[k].word]],
                positive_highlights |->
                    IF positive_reviews # << >> /\ keywords # << >>
                      THEN [keywords |-> [k \in 1..Min(3, Len(keywords)) |-> keywords[k].word],
                            customers |-> Len(positive_reviews)]
                      ELSE [keywords |-> << >>, customers |-> 0],
                negative_highlights |->
                    IF negative_reviews # << >>
                      THEN [themes |-> [k \in DOMAIN negative_themes |-> negative_themes[k].theme],
                            reviews |-> Len(negative_reviews)]
                      ELSE [themes |-> << >>, reviews |-> 0]]

\* OpenAIService._fallback_insights
_fallback_insights(reviews, sentiment_dist, keywords) ==
    LET total == Len(reviews)
        positive == sentiment_dist["positive"]
        negative == sentiment_dist["negative"]
        ratings == SumSeq([i \in DOMAIN reviews |-> reviews[i].rating])
        insights ==
            \* positive_pct > 70, > 50 (0 when total is 0)
            (IF 100 * positive > 70 * total
               THEN <<[kind |-> "Excellent satisfaction (fallback)", count |-> positive, total |-> total]>>
             ELSE IF 100 * positive > 50 * total
               THEN <<[kind |-> "Good performance", count |-> positive, total |-> total]>>
             ELSE <<[kind |-> "Improvement needed", count |-> positive, total |-> total]>>)
         \o (IF 100 * negative > 30 * total
               THEN <<[kind |-> "High negativity (fallback)", count |-> negative, total |-> total]>>
               ELSE << >>)
         \o (IF keywords # << >>
               THEN <<[kind |-> "Key topics",
                       words |-> [k \in 1..Min(3, Len(keywords)) |-> keywords[k].word]]>>
               ELSE << >>)
         \o (IF total > 100 THEN <<[kind |-> "Strong engagement", total |-> total]>>
             ELSE IF total < 20 THEN <<[kind |-> "Limited feedback", total |-> total]>>
             ELSE << >>)
         \o (IF total > 0 /\ ratings >= 45 * total
               THEN <<[kind |-> "Premium quality", sum |-> ratings, total |-> total]>>
             ELSE IF total > 0 /\ ratings >= 40 * total
               THEN <<[kind |-> "Above average", sum |-> ratings, total |-> total]>>
             ELSE << >>)
    IN  Take(insights, 5)

\* what the chat completion may do when asked for insights (temperature
\* 0.7): raise, or answer with some lines; a reply holding no usable line
\* is the empty list
CompletionRaises == <<[kind |-> "raises"]>>

Completions ==
    { CompletionRaises,
      << >>,
      <<[kind |-> "Customers praise the design"]>>,
      <<[kind |-> "Customers praise the design"], [kind |-> "Lower the price"]>> }

\* OpenAIService.generate_insights once the client exists
generate_insights(reviews, sentiment_dist, keywords, completion) ==
    IF completion = CompletionRaises \/ completion = << >>
         \* r.get('text', '')[:80] of a None text, for r in reviews[:5]
         \/ \E i \in 1..Min(5, Len(reviews)) : reviews[i].text = NullText
      THEN _fallback_insights(reviews, sentiment_dist, keywords)
      ELSE Take(completion, 5)

\* set at import: bot_detector.py imports the standard library only
BOT_DETECTOR_AVAILABLE == TRUE

\* f"{review.get('title', '')} {review.get('text', '')}" with the empty
\* title used here: the text, by which the tables above are indexed
CombinedText(review) == review.text

\* bot_detector.analyze_batch raises TypeError on a text that is None
\* (review.get('text', '') + ' ' in analyze_review)
BatchRaises(reviews) == \E i \in DOMAIN reviews : reviews[i].text = NullText

\* the exception leaves analyze_reviews
AnalysisRaises == [raises |-> "TypeError"]

\* analyze_reviews returns {} for no reviews
EmptyAnalysis == << >>

\* Step 2: what the loop appends to analyzed
AnalyzedReview(review) ==
    LET sentiment_result == analyze_sentiment(ReviewScores[CombinedText(review)])
    IN  [sentiment |-> sentiment_result.sentiment,
         sentiment_score |-> sentiment_result.polarity,
         sentiment_analysis |->
             [sentiment |-> sentiment_result.sentiment,
              \* sentiment_result has no key "vader_compound"
              vader_compound |-> 0,
              textblob_polarity |-> sentiment_result.polarity,
              confidence |-> sentiment_result.confidence,
              subjectivity |-> sentiment_result.subjectivity]] @@ review

\* Step 8, "Fallback insights if OpenAI unavailable or failed"
MainFallbackInsights(sentiment_counts, total, keywords) ==
    LET positive == sentiment_counts["positive"]
        negative == sentiment_counts["negative"]
    IN  (IF 100 * positive > 70 * total
           THEN <<[kind |-> "Excellent satisfaction", count |-> positive, total |-> total]>>
         ELSE IF 100 * positive > 50 * total
           THEN <<[kind |-> "Good satisfaction", count |-> positive, total |-> total]>>
         ELSE << >>)
     \o (IF 100 * negative > 30 * total
           THEN <<[kind |-> "High negativity", count |-> negative, total |-> total]>>
           ELSE << >>)
     \o (IF keywords # << >>
           THEN <<[kind |-> "Top keywords",
                   words |-> [k \in 1..Min(5, Len(keywords)) |-> keywords[k].word]]>>
           ELSE << >>)

\* F(v), with v computed once
Then(F(_), v) == CHOOSE out \in {F(x) : x \in {v}} : TRUE

\* variant: the analysis runs over every annotated review, flagged or not
BotStep_KeepsFlagged(reviews, filter_bots) ==
    IF BOT_DETECTOR_AVAILABLE /\ filter_bots
      THEN Then(LAMBDA bot_analysis :
                    [reviews_to_analyze |-> bot_analysis.analyzed_reviews,
                     bot_stats |-> bot_analysis.bot_statistics],
                analyze_batch(reviews))
      ELSE [reviews_to_analyze |-> reviews,
            bot_stats |-> [total_reviews |-> Len(reviews), genuine_count |-> Len(reviews),
                           bot_count |-> 0]]

\* Step 1, bot detection: the reviews that are analysed and the statistics
BotStep(reviews, filter_bots) ==
    IF BOT_DETECTOR_AVAILABLE /\ filter_bots
      THEN Then(LAMBDA bot_analysis :
                    [reviews_to_analyze |->
                         \* bot_analysis.get('genuine_reviews', reviews)
                         IF "genuine_reviews" \in DOMAIN bot_analysis
                           THEN bot_analysis.genuine_reviews ELSE reviews,
                     bot_stats |-> bot_analysis.bot_statistics],
                analyze_batch(reviews))
      ELSE [reviews_to_analyze |-> reviews,
            bot_stats |-> [total_reviews |-> Len(reviews), genuine_count |-> Len(reviews),
                           bot_count |-> 0]]

\* Steps 2 and 3, sentiment analysis: analyzed, texts and sentiment_counts
SentimentStep(s) ==
    Then(LAMBDA analyzed :
             [analyzed |-> analyzed,
              texts |-> AsList([i \in DOMAIN s.reviews_to_analyze |->
                                   CombinedText(s.reviews_to_analyze[i])]),
              sentiment_counts |->
                  SentimentCounts([i \in DOMAIN analyzed |-> analyzed[i].sentiment])] @@ s,
         AsList([i \in DOMAIN s.reviews_to_analyze |-> AnalyzedReview(s.reviews_to_analyze[i])]))

\* Steps 4 to 6: keywords, emotions and themes
MetricsStep(s, clustering, order) ==
    [keywords |-> extract_keywords(s.texts, TopKeywords),
     emotions |-> extract_emotions([i \in DOMAIN s.texts |->
                      [s |-> s.texts[i], polarity |-> ReviewScores[s.texts[i]].polarity]]),
     themes |-> extract_themes(s.texts, clustering, order)] @@ s

\* Steps 7 to 9: samples, insights, summaries and the result
ReportStep(s, filter_bots, OPENAI_AVAILABLE, completion) ==
    LET detect == BOT_DETECTOR_AVAILABLE /\ filter_bots
        total == Len(s.reviews_to_analyze)
        from_openai == IF OPENAI_AVAILABLE
                         THEN generate_insights(s.reviews_to_analyze, s.sentiment_counts,
                                                s.keywords, completion)
                         ELSE << >>
        insights == IF from_openai # << >> THEN from_openai
                    ELSE MainFallbackInsights(s.sentiment_counts, total, s.keywords)
    IN  [reviews |-> s.analyzed,
         sentiment_distribution |-> s.sentiment_counts,
         top_keywords |-> s.keywords,
         themes |-> s.themes,
         emotions |-> s.emotions,
         summaries |-> generate_summaries(s.analyzed, s.sentiment_counts, s.keywords, s.themes),
         review_samples |->
             [positive |-> FirstLabelled(s.analyzed, "positive", SampleSize),
              negative |-> FirstLabelled(s.analyzed, "negative", SampleSize),
              neutral  |-> FirstLabelled(s.analyzed, "neutral", SampleSize)],
         insights |-> IF detect /\ s.bot_stats.bot_count > 0
                        THEN Append(insights, [kind |-> "Filtered", count |-> s.bot_stats.bot_count,
                                               percentage |-> s.bot_stats.bot_percentage])
                        ELSE insights,
         bot_detection |-> s.bot_stats,
         ai_provider |-> IF OPENAI_AVAILABLE THEN "openai" ELSE "free"]

\* analyze_reviews of main.py.  clustering is what TF-IDF and KMeans do
\* with the texts, order the iteration order of a set of labels, completion
\* what the chat completion does.
analyze_reviews(reviews, filter_bots, OPENAI_AVAILABLE, clustering, order, completion) ==
    IF reviews = << >> THEN EmptyAnalysis
    ELSE IF BOT_DETECTOR_AVAILABLE /\ filter_bots /\ BatchRaises(reviews) THEN AnalysisRaises
    ELSE Then(LAMBDA s : ReportStep(s, filter_bots, OPENAI_AVAILABLE, completion),
              Then(LAMBDA s : MetricsStep(s, clustering, order),
                   Then(SentimentStep, BotStep(reviews, filter_bots))))

\* what the analysis endpoint stores for a review before sampling; text is
\* what the two scorers return for the review's text
ProcessedReview(id, text) ==
    LET sentiment_info == analyze_sentiment_enhanced(text)
    IN  [id |-> id, text |-> text,
         sentiment |-> sentiment_info.sentiment,
         sentiment_score |-> sentiment_info.vader_compound,
         sentiment_analysis |-> sentiment_info]

\* list.sort(key=vader_compound), stable; descending is reverse=True
RECURSIVE InsertByCompound(_, _, _)
InsertByCompound(review, sorted, descending) ==
    IF sorted = << >> THEN <<review>>
    ELSE LET a == Head(sorted).sentiment_analysis.vader_compound
             b == review.sentiment_analysis.vader_compound
         IN  IF (descending /\ a >= b) \/ (~descending /\ a <= b)
               THEN <<Head(sorted)>> \o InsertByCompound(review, Tail(sorted), descending)
               ELSE <<review>> \o sorted

RECURSIVE SortByCompound(_, _)
SortByCompound(reviews, descending) ==
    IF reviews = << >> THEN << >>
    ELSE InsertByCompound(reviews[Len(reviews)],
                          SortByCompound(SubSeq(reviews, 1, Len(reviews) - 1), descending),
                          descending)

\* extract_review_samples of app/api/endpoints/analyze.py
extract_review_samples(reviews_data, sample_size) ==
    LET compound_score(review) == review.sentiment_analysis.vader_compound
        positive_reviews == SelectSeq(reviews_data, LAMBDA r : compound_score(r) >= 500)
        negative_reviews == SelectSeq(reviews_data,
                                LAMBDA r : compound_score(r) < 500 /\ compound_score(r) <= -500)
        neutral_reviews  == SelectSeq(reviews_data,
                                LAMBDA r : compound_score(r) < 500 /\ compound_score(r) > -500)
    IN  [positive |-> Take(SortByCompound(positive_reviews, TRUE), sample_size),
         negative |-> Take(SortByCompound(negative_reviews, FALSE), sample_size),
         neutral  |-> Take(neutral_reviews, sample_size)]

----------------------------------------------------------------------------
(* EnhancedReviewAnalyzer.analyze_reviews (app/services/analyzer.py).      *)
(* The sentiment and rating stages are computed; the other stages are      *)
(* kept as the dataframe they were given.  A stage that raises is an       *)
(* event of the environment: failing names the stage, "none" for a run     *)
(* in which nothing raises.                                                *)

\* the texts used here whose length is exactly 5: they pass the sanitizer
\* (len < 5 is dropped) and are dropped by the dataframe (len > 5 is kept)
FiveCharTexts == {"Great"}

\* _sanitize_single_review on a review the text validation accepted
_sanitize_single_review(review) ==
    [review_text |-> StripStr(IF "review_text" \in DOMAIN review /\ review.review_text # ""
                                THEN review.review_text ELSE review.text),
     rating |-> SanitizedRating(review.rating)]

\* _validate_and_sanitize_input: (is_valid, error_msg, validated_reviews)
_validate_and_sanitize_input(reviews_data) ==
    LET reviews == reviews_data.reviews
        accepted == SelectSeq(reviews, SanitizeAccepts)
        valid_reviews == AsList([i \in DOMAIN accepted |-> _sanitize_single_review(accepted[i])])
    IN  IF ~reviews_data.success
          THEN [is_valid |-> FALSE, error_msg |-> "Input data error", reviews |-> << >>]
        ELSE IF reviews = << >>
          THEN [is_valid |-> FALSE, error_msg |-> "No reviews to analyze", reviews |-> << >>]
        ELSE IF valid_reviews = << >>
          THEN [is_valid |-> FALSE, error_msg |-> "No valid reviews found after sanitization",
                reviews |-> << >>]
        ELSE [is_valid |-> TRUE, error_msg |-> "Valid input", reviews |-> valid_reviews]

\* Series.clip(1, 5), in tenths
ClipRating(rating) == IF rating < 10 THEN 10 ELSE IF rating > 50 THEN 50 ELSE rating

\* _prepare_dataframe_enhanced: the rows of the dataframe
_prepare_dataframe_enhanced(reviews) ==
    LET kept == SelectSeq(reviews, LAMBDA r : r.review_text \notin FiveCharTexts)
    IN  AsList([i \in DOMAIN kept |->
                  [review_text |-> kept[i].review_text, rating |-> ClipRating(kept[i].rating)]])

\* _analyze_rating_distribution: ratings == 5.0, ..., ratings == 1.0
_analyze_rating_distribution(df) ==
    LET ratings == RatingsOf(df)
    IN  ("5_star" :> CountRatings(ratings, LAMBDA r : r = 50)
         @@ "4_star" :> CountRatings(ratings, LAMBDA r : r = 40)
         @@ "3_star" :> CountRatings(ratings, LAMBDA r : r = 30)
         @@ "2_star" :> CountRatings(ratings, LAMBDA r : r = 20)
         @@ "1_star" :> CountRatings(ratings, LAMBDA r : r = 10))

\* _analyze_sentiment_lightweight with _format_sentiment_results: the label
\* counts over the rows, percentages kept as count and total
_analyze_sentiment_lightweight(df) ==
    LET sentiments == [i \in DOMAIN df |-> LightweightSentiment(ReviewScores[df[i].review_text])]
        total == Len(df)
        positive == Cardinality({i \in DOMAIN df : sentiments[i].label = "positive"})
        negative == Cardinality({i \in DOMAIN df : sentiments[i].label = "negative"})
    IN  [positive |-> [count |-> positive, total |-> total],
         neutral  |-> [count |-> total - positive - negative, total |-> total],
         negative |-> [count |-> negative, total |-> total],
         rating_sum |-> SumSeq(RatingsOf(df))]

\* analysis_functions, in the order they run
AnalysisStages ==
    <<"sentiment_distribution", "emotion_analysis", "keyword_analysis", "topic_modeling",
      "rating_distribution", "temporal_trends", "quality_metrics", "customer_segments">>

\* the handler of the stage loop: results[key] = {"error": ..., "status": "failed"}
StageFailed == [error |-> "exception", status |-> "failed"]

\* results[key] = func(df) for a stage that returns
StageResult(key, df) ==
    IF key = "sentiment_distribution" THEN _analyze_sentiment_lightweight(df)
    ELSE IF key = "rating_distribution" THEN _analyze_rating_distribution(df)
    ELSE [status |-> "computed", rows |-> Len(df)]

\* what may raise in one run: a stage, the insights, the summary, or nothing
AnalyzerFailures == {"none", "insights", "summary"} \cup Range(AnalysisStages)

\* the clock readings of datetime.now()
ClockReadings == {"09:00:00", "09:00:01"}

\* EnhancedReviewAnalyzer.analyze_reviews
Analyzer_analyze_reviews(reviews_data, failing, now) ==
    LET validated == _validate_and_sanitize_input(reviews_data)
        df == _prepare_dataframe_enhanced(validated.reviews)
        results == [key \in Range(AnalysisStages) |->
                      IF key = failing THEN StageFailed ELSE StageResult(key, df)]
    IN  IF ~validated.is_valid
          THEN [success |-> FALSE, error |-> validated.error_msg,
                error_type |-> "validation_error"]
        ELSE IF df = << >>
          THEN [success |-> FALSE, error |-> "Failed to create valid DataFrame from reviews",
                error_type |-> "dataframe_error"]
        ELSE [success |-> TRUE,
              asin |-> reviews_data.asin,
              total_reviews |-> Len(df),
              analyzed_at |-> now,
              results |-> results,  \* **results
              insights |-> IF failing = "insights" THEN <<[kind |-> "Insights generation failed"]>>
                           ELSE <<[kind |-> "insight", rows |-> Len(df)]>>,
              summary |-> IF failing = "summary" THEN "Summary generation failed"
                          ELSE "summary",
              analysis_version |-> "2.0_lightweight"]

----------------------------------------------------------------------------
(* Field mapping of raw review records: _transform_junglee_reviews of      *)
(* apify_service.py and the review_dict of the /api/v1/analyze endpoint    *)
(* of app/api/endpoints/analyze.py.                                        *)

\* the value a raw record carries under each key when the key is filled
RawValue ==
    [text |-> Str("from text"), reviewText |-> Str("from reviewText"),
     reviewDescription |-> Str("from reviewDescription"),
     content |-> Str("from content"), body |-> Str("from body"),
     rating |-> Num(40), starRating |-> Num(30), stars |-> Num(50),
     date |-> Str("2024-03-01"), reviewDate |-> Str("2024-03-02"),
     timestamp |-> Str("2024-03-03")]

\* the value under a key that is present but empty: "" for the strings, 0 for
\* the ratings
EmptyValue(key) == IF RawValue[key].t = "num" THEN Num(0) ELSE Str("")

\* the records over some of the keys, each key filled or empty
RecordsOver(keys) ==
    {[k \in p[1] |-> IF k \in p[2] THEN EmptyValue(k) ELSE RawValue[k]] :
        p \in {q \in (SUBSET keys) \X (SUBSET keys) : q[2] \subseteq q[1]}}

TextKeys == {"text", "reviewText", "reviewDescription", "content", "body"}

RatingKeys == {"rating", "starRating", "stars"}

DateKeys == {"date", "reviewDate", "timestamp"}

\* raw review records: one group of keys varies, the other fields are filled
\* under their first key
RawReviews ==
    {t @@ [rating |-> Num(40), date |-> Str("2024-03-01")] : t \in RecordsOver(TextKeys)}
    \cup {r @@ [text |-> Str("from text"), date |-> Str("2024-03-01")] :
            r \in RecordsOver(RatingKeys)}
    \cup {d @@ [text |-> Str("from text"), rating |-> Num(40)] : d \in RecordsOver(DateKeys)}

\* analyze.py, "Extract review data with proper field mapping": review_dict
EndpointReviewDict(review) ==
    [title |-> GetOr(review, "title", GetOr(review, "reviewTitle", Str(""))),
     text  |-> GetOr(review, "text",
                     GetOr(review, "reviewDescription", GetOr(review, "content", Str("")))),
     stars  |-> GetOr(review, "stars", GetOr(review, "rating", Num(0))),
     rating |-> GetOr(review, "stars", GetOr(review, "rating", Num(0))),
     date   |-> GetOr(review, "date", GetOr(review, "reviewDate", Str("")))]

NormalizeInit ==
    /\ cfg = NoConfig
    /\ req = NoRequest
    /\ pc = "idle"
    /\ result = NoResult
    /\ FetchIdle

\* ApifyService._transform_junglee_reviews on one item holding a review
TransformJungleeReview ==
    /\ pc = "idle"
    /\ \E review_data \in RawReviews :
         /\ req' = [via |-> "_transform_junglee_reviews", review |-> review_data]
         /\ result' = _transform_junglee_reviews(<<[review |-> review_data]>>)
    /\ pc' = "done"
    /\ UNCHANGED <<cfg, asin, countries, idx, calls, errors, mock_calls, growth_data_store, files>>

\* the loop body of the endpoint on one raw review
MapEndpointReview ==
    /\ pc = "idle"
    /\ \E review \in RawReviews :
         /\ req' = [via |-> "review_dict", review |-> review]
         /\ result' = <<EndpointReviewDict(review)>>
    /\ pc' = "done"
    /\ UNCHANGED <<cfg, asin, countries, idx, calls, errors, mock_calls, growth_data_store, files>>

NormalizeNext ==
    \/ TransformJungleeReview
    \/ MapEndpointReview

NormalizeSpec == NormalizeInit /\ [][NormalizeNext]_vars

\* the value of the first key of the list that is present and not empty in the
\* record, the default when there is none
FirstNonEmpty(record, keys, default) ==
    LET filled == {i \in DOMAIN keys : keys[i] \in DOMAIN record /\ Truthy(record[keys[i]])}
    IN  IF filled = {} THEN default
        ELSE record[keys[CHOOSE i \in filled : \A k \in filled : i <= k]]

\* a raw review was mapped to a review
Mapped == pc = "done" /\ req.via \in {"_transform_junglee_reviews", "review_dict"} /\ result # << >>

\* the candidate keys of each target field, in the order of each mapping
CandidateKeys ==
    [_transform_junglee_reviews |->
         [text |-> <<"text", "reviewText", "content", "body">>,
          rating |-> <<"rating", "starRating", "stars">>,
          date |-> <<"date", "reviewDate", "timestamp">>],
     review_dict |->
         [text |-> <<"text", "reviewDescription", "content">>,
          rating |-> <<"stars", "rating">>,
          date |-> <<"date", "reviewDate">>]]

\* the text, rating (in tenths) and date of the mapped review
MappedFields ==
    IF req.via = "review_dict"
      THEN [text |-> result[1].text.s, rating |-> result[1].rating.n, date |-> result[1].date.s]
      ELSE [text |-> result[1].text, rating |-> result[1].rating,
            date |-> result[1].review_date.s]

\* each field is the first non-empty candidate of the raw record
FirstNonEmptyWins ==
    LET keys == CandidateKeys[req.via]
        got == MappedFields
    IN  /\ got.text = FirstNonEmpty(req.review, keys.text, Str("")).s
        /\ got.rating = FirstNonEmpty(req.review, keys.rating, Num(0)).n
        /\ got.date = FirstNonEmpty(req.review, keys.date, Str("")).s

\* C25: each target field of a normalized review takes the value of the first
\* key, in the field's candidate order, that is present with a non-empty value
\* in the raw record; a key that is present but empty does not shadow a later
\* non-empty candidate, and the default is used only when no candidate has a
\* non-empty value.
C25_FirstNonEmptyWins ==
    Mapped => FirstNonEmptyWins

\* what does hold: the mapping of _transform_junglee_reviews
C25_TransformFirstNonEmpty ==
    Mapped /\ req.via = "_transform_junglee_reviews" => FirstNonEmptyWins

\* the transform skipped an empty first key and took a later candidate
C25_LaterCandidateTaken ==
    /\ Mapped /\ req.via = "_transform_junglee_reviews"
    /\ "text" \in DOMAIN req.review /\ req.review.text = Str("")
    /\ result[1].text = "from content"

----------------------------------------------------------------------------
(* The analysis pipeline as a state machine.                               *)

\* a review as fetch_apify_reviews of main.py builds it
AnalysisReview(text, rating, verified, helpful_count, author) ==
    BotReview(text, rating, verified, helpful_count, author)

\* the reviews the batches are made of: two positive ones of different
\* strength, a negative one, a neutral one, one the bot filter removes and
\* one whose text is None
AnalysisSamples ==
    { AnalysisReview("I love it, amazing", 50, TRUE, 3, "Priya"),
      AnalysisReview("Good price and a good design", 40, TRUE, 3, "Priya"),
      AnalysisReview("Poor quality", 20, TRUE, 2, "Tom"),
      AnalysisReview("", 0, TRUE, 2, "Priya"),
      AnalysisReview("Great product!", 50, FALSE, 0, "customer123"),
      AnalysisReview(NullText, 30, TRUE, 1, "Tom") }

\* the reviews of a batch are told apart by their id
WithIds(reviews) == [i \in DOMAIN reviews |-> [id |-> i] @@ reviews[i]]

\* the scored texts of the reviews handed to extract_review_samples
SampleTexts ==
    { [compound |-> c, polarity |-> 2500, subjectivity |-> 5000] :
        c \in {8402, 7003, 4215, 504, 496, 0, -496, -4767, -7351} }

\* OPENAI_AVAILABLE is set at import, from the API key
AnalysisConfigs == [OPENAI_AVAILABLE : BOOLEAN]

\* the labellings of KMeans tried here: those whose cluster sizes grow with
\* the cluster id, so that sorting the themes by mentions reorders them
AnalysisClusterings(texts) ==
    {c \in Clusterings(texts, MinClusterTexts) : \A i \in 1..(Len(c) - 1) : c[i] <= c[i + 1]}

\* the texts analyze_reviews hands to extract_themes
MainCorpus(reviews, filter_bots) ==
    IF reviews = << >> \/ (BOT_DETECTOR_AVAILABLE /\ filter_bots /\ BatchRaises(reviews))
      THEN << >>
      ELSE Then(SentimentStep, BotStep(reviews, filter_bots)).texts

AnalysisInit ==
    /\ cfg \in AnalysisConfigs
    /\ req = NoRequest
    /\ pc = "idle"
    /\ result = NoResult
    /\ FetchIdle

\* main.py: analyze_reviews(reviews, filter_bots)
AnalyzeReviews ==
    /\ pc = "idle"
    /\ \E batch \in Batches(AnalysisSamples, MaxCorpus), filter_bots \in BOOLEAN,
          completion \in IF cfg.OPENAI_AVAILABLE THEN Completions ELSE {CompletionRaises},
          order \in LabelOrders :
         \E reviews \in {WithIds(batch)} :
           \E texts \in {MainCorpus(reviews, filter_bots)} :
             \E clustering \in IF Len(texts) < MinClusterTexts THEN {ClusteringRaises}
                                ELSE AnalysisClusterings(texts) :
               /\ req' = [via |-> "analyze_reviews", reviews |-> reviews,
                          filter_bots |-> filter_bots, clustering |-> clustering,
                          order |-> order]
               /\ result' = analyze_reviews(reviews, filter_bots, cfg.OPENAI_AVAILABLE,
                                            clustering, order, completion)
    /\ pc' = "done"
    /\ UNCHANGED <<cfg, asin, countries, idx, calls, errors, mock_calls, growth_data_store, files>>

\* analyze.py: extract_review_samples(processed_reviews, sample_size=3)
ExtractReviewSamples ==
    /\ pc = "idle"
    /\ \E texts \in Batches(SampleTexts, MaxCorpus) :
         LET reviews_data == [i \in DOMAIN texts |-> ProcessedReview(i, texts[i])]
         IN  /\ req' = [via |-> "extract_review_samples", reviews |-> reviews_data]
             /\ result' = [reviews |-> reviews_data,
                           review_samples |-> extract_review_samples(reviews_data, SampleSize)]
    /\ pc' = "done"
    /\ UNCHANGED <<cfg, asin, countries, idx, calls, errors, mock_calls, growth_data_store, files>>


\* the longest list of reviews handed to the analyzer
MaxFrame == 3

\* a review as the scraper hands it to the analyzer, rating in tenths
AnalyzerReview(review_text, rating) == [review_text |-> review_text, rating |-> rating]

AnalyzerSamples ==
    { AnalyzerReview("I love it, amazing", 50),
      AnalyzerReview("Good price and a good design", 45),
      AnalyzerReview("Poor quality", 10),
      AnalyzerReview("Poor quality", 0),
      AnalyzerReview("I love it, amazing", 70),
      AnalyzerReview("Great", 40),
      AnalyzerReview("Bad", 20) }

\* the scraper results handed to the analyzer
AnalyzerInputs ==
    {[success |-> TRUE, asin |-> "B08N5WRWNW", reviews |-> batch] :
        batch \in Batches(AnalyzerSamples, MaxFrame)}
    \cup {[success |-> FALSE, asin |-> "B08N5WRWNW", reviews |-> << >>]}

\* EnhancedReviewAnalyzer.analyze_reviews(reviews_data)
EnhancedAnalyze ==
    /\ pc = "idle"
    /\ \E reviews_data \in AnalyzerInputs, failing \in AnalyzerFailures, now \in ClockReadings :
         /\ req' = [via |-> "EnhancedReviewAnalyzer.analyze_reviews",
                    reviews_data |-> reviews_data, failing |-> failing]
         /\ result' = Analyzer_analyze_reviews(reviews_data, failing, now)
    /\ pc' = "done"
    /\ UNCHANGED <<cfg, asin, countries, idx, calls, errors, mock_calls, growth_data_store, files>>

\* main.py: analyze_reviews(reviews, filter_bots) called a second time, by the
\* same process, with the reviews and the flag of the first call.  KMeans is
\* seeded (random_state=42) and the hash seed of the process is fixed, so the
\* clustering and the iteration order are those of the first call; the chat
\* completion is sampled anew (temperature 0.7).
AnalyzeReviewsAgain ==
    /\ pc = "done"
    /\ req.via = "analyze_reviews"
    /\ \E completion \in IF cfg.OPENAI_AVAILABLE THEN Completions ELSE {CompletionRaises} :
         /\ req' = [first |-> result] @@ req
         /\ result' = analyze_reviews(req.reviews, req.filter_bots, cfg.OPENAI_AVAILABLE,
                                      req.clustering, req.order, completion)
    /\ pc' = "again"
    /\ UNCHANGED <<cfg, asin, countries, idx, calls, errors, mock_calls, growth_data_store, files>>

\* EnhancedReviewAnalyzer.analyze_reviews(reviews_data) called a second time
\* with the input of the first call, the clock read anew
EnhancedAnalyzeAgain ==
    /\ pc = "done"
    /\ req.via = "EnhancedReviewAnalyzer.analyze_reviews"
    /\ \E now \in ClockReadings :
         /\ req' = [first |-> result] @@ req
         /\ result' = Analyzer_analyze_reviews(req.reviews_data, req.failing, now)
    /\ pc' = "again"
    /\ UNCHANGED <<cfg, asin, countries, idx, calls, errors, mock_calls, growth_data_store, files>>

----------------------------------------------------------------------------
(* The endpoint /api/v1/analyze of main.py.                                *)

\* the longest dataset the actor returns to the endpoint
MaxFetched == 3

\* the raw item of the actor's dataset that fetch_apify_reviews turns into `review`
ProductItem(review, i) ==
    [id |-> i,
     reviewTitle |-> Str(review.title),
     reviewDescription |-> IF review.text = NullText THEN None ELSE Str(review.text),
     reviewRating |-> Num(review.rating),
     reviewAuthor |-> Str(review.author),
     isVerified |-> review.verified,
     helpfulCount |-> review.helpful_count]

\* what the actor does during the request: its call raises, or it returns a dataset
ProductUpstreams ==
    {[call_raises |-> TRUE, has_dataset |-> FALSE, items |-> << >>]}
    \cup {[call_raises |-> FALSE, has_dataset |-> TRUE,
           items |-> [i \in DOMAIN batch |-> ProductItem(batch[i], i)]] :
            batch \in Batches(AnalysisSamples, MaxFetched)}

\* the flat response analyze_product builds from reviews_data (product_info,
\* average_rating, timestamp and processing_time are passed through and left out here)
FlatResponse(reviews_data, a, country, enable_ai) ==
    [success |-> TRUE, asin |-> a, country |-> country,
     total_reviews |-> GetOr(reviews_data, "total_reviews", 0),
     rating_distribution |-> GetOr(reviews_data, "rating_distribution", << >>),
     sentiment_distribution |-> GetOr(reviews_data, "sentiment_distribution", None),
     reviews |-> GetOr(reviews_data, "reviews", << >>),
     review_samples |-> GetOr(reviews_data, "review_samples", None),
     ai_enabled |-> enable_ai,
     top_keywords |-> GetOr(reviews_data, "top_keywords", << >>),
     themes |-> GetOr(reviews_data, "themes", << >>),
     emotions |-> GetOr(reviews_data, "emotions", None),
     summaries |-> GetOr(reviews_data, "summaries", None),
     insights |-> GetOr(reviews_data, "insights", << >>),
     data_source |-> GetOr(reviews_data, "data_source", "unknown")]

\* growth_data_store[asin].append({...}) on the defaultdict(list)
GrowthAppend(store, a, reviews_data) ==
    (a :> Append(IF a \in DOMAIN store THEN store[a] ELSE << >>,
                 [review_count |-> GetOr(reviews_data, "total_reviews", 0)]))
    @@ store

\* main.py: analyze_product(request), with the Apify client configured and
\* USE_MOCK_FALLBACK off (the generator is not run, whatever its draw); analyze_reviews
\* is called with its default filter_bots=True
AnalyzeProductRequest ==
    /\ pc = "idle"
    /\ \E up \in ProductUpstreams, m \in RequestedSizes, enable_ai \in BOOLEAN,
          completion \in IF cfg.OPENAI_AVAILABLE THEN Completions ELSE {CompletionRaises},
          order \in LabelOrders :
         \E fetched \in {fetch_apify_reviews(ValidAsin, Min(m, MAX_REVIEWS), FALSE, up,
                                             CHOOSE draw \in MockDraws : TRUE)} :
           \E texts \in {IF fetched.success THEN MainCorpus(fetched.reviews, TRUE) ELSE << >>} :
             \E clustering \in IF Len(texts) < MinClusterTexts THEN {ClusteringRaises}
                                ELSE AnalysisClusterings(texts) :
               \E analysis \in {IF fetched.success /\ enable_ai /\ fetched.reviews # << >>
                                  THEN analyze_reviews(fetched.reviews, TRUE,
                                                       cfg.OPENAI_AVAILABLE, clustering,
                                                       order, completion)
                                  ELSE EmptyAnalysis} :
                 /\ req' = [via |-> "analyze_product", asin |-> ValidAsin, requested |-> m,
                            max_reviews |-> Min(m, MAX_REVIEWS), enable_ai |-> enable_ai,
                            fetched |-> fetched]
                 /\ IF ~fetched.success
                      THEN /\ result' = fetched
                           /\ UNCHANGED growth_data_store
                    ELSE IF analysis = AnalysisRaises
                      THEN /\ result' = [raised |-> "HTTPException", status_code |-> 500]
                           /\ UNCHANGED growth_data_store
                    ELSE /\ result' = FlatResponse(analysis @@ fetched, ValidAsin, "US",
                                                   enable_ai)
                         /\ growth_data_store' = GrowthAppend(growth_data_store, ValidAsin,
                                                              analysis @@ fetched)
    /\ pc' = "done"
    /\ UNCHANGED <<cfg, asin, countries, idx, calls, errors, mock_calls, files>>
AnalysisNext ==
    \/ AnalyzeReviews
    \/ ExtractReviewSamples
    \/ EnhancedAnalyze
    \/ AnalyzeReviewsAgain
    \/ EnhancedAnalyzeAgain
    \/ AnalyzeProductRequest

AnalysisSpec == AnalysisInit /\ [][AnalysisNext]_vars

\* an analysis came back with its samples
SamplesDone ==
    /\ pc = "done"
    /\ req.via \in {"analyze_reviews", "extract_review_samples"}
    /\ result # EmptyAnalysis /\ result # AnalysisRaises

\* the compound score the lexicon scorer gives a review
CompoundOf(review) ==
    IF req.via = "analyze_reviews" THEN ReviewScores[CombinedText(review)].compound
    ELSE review.text.compound

\* the ids of the reviews of a list
Ids(reviews) == {reviews[i].id : i \in DOMAIN reviews}

\* sample holds the (up to) SampleSize reviews of label l that score
\* highest (sign = 1) or lowest (sign = -1)
ExtremeSample(sample, l, sign) ==
    LET labelled == {i \in DOMAIN result.reviews : result.reviews[i].sentiment = l}
    IN  /\ Len(sample) = Min(SampleSize, Cardinality(labelled))
        /\ \A k \in DOMAIN sample : \A i \in labelled :
              result.reviews[i].id \notin Ids(sample)
                  => sign * CompoundOf(result.reviews[i]) <= sign * CompoundOf(sample[k])

\* C17: the positive sample holds the (up to) 3 highest-scoring reviews
\* labelled positive, in descending order of compound score, the negative
\* sample the (up to) 3 lowest-scoring reviews labelled negative, the
\* neutral sample at most 3 reviews; no review is in two lists and every
\* sampled review carries the label of its list.
C17_RepresentativeSamples ==
    SamplesDone =>
        LET s == result.review_samples
        IN  /\ ExtremeSample(s.positive, "positive", 1)
            /\ \A j, k \in DOMAIN s.positive :
                  j < k => CompoundOf(s.positive[j]) >= CompoundOf(s.positive[k])
            /\ ExtremeSample(s.negative, "negative", -1)
            /\ Len(s.neutral) <= SampleSize
            /\ Ids(s.positive) \cap Ids(s.negative) = {}
            /\ Ids(s.positive) \cap Ids(s.neutral) = {}
            /\ Ids(s.negative) \cap Ids(s.neutral) = {}
            /\ \A l \in Labels : \A k \in DOMAIN s[l] :
                  /\ s[l][k].sentiment = l
                  /\ \E i \in DOMAIN result.reviews : result.reviews[i] = s[l][k]

\* what holds: the lists are disjoint and short enough, every sampled
\* review is one of the analysed reviews, and analyze_reviews of main.py
\* puts a review in the list of its label
C17_DisjointSamples ==
    SamplesDone =>
        LET s == result.review_samples
        IN  /\ \A l \in Labels : Len(s[l]) <= SampleSize
            /\ Ids(s.positive) \cap Ids(s.negative) = {}
            /\ Ids(s.positive) \cap Ids(s.neutral) = {}
            /\ Ids(s.negative) \cap Ids(s.neutral) = {}
            /\ \A l \in Labels : \A k \in DOMAIN s[l] :
                  /\ \E i \in DOMAIN result.reviews : result.reviews[i] = s[l][k]
                  /\ req.via = "analyze_reviews" => s[l][k].sentiment = l

\* analyze_reviews sampled three of four positive reviews
C17_FourPositives ==
    /\ SamplesDone /\ req.via = "analyze_reviews"
    /\ Cardinality({i \in DOMAIN result.reviews : result.reviews[i].sentiment = "positive"}) = 4
    /\ Len(result.review_samples.positive) = 3

\* the analyzer came back with an analysis whose rating stage ran
RatingsDone ==
    /\ pc = "done"
    /\ req.via = "EnhancedReviewAnalyzer.analyze_reviews"
    /\ IsSuccess(result)
    /\ req.failing # "rating_distribution"

\* the rows the analyzer counted in total_reviews
AnalyzerFrame ==
    _prepare_dataframe_enhanced(_validate_and_sanitize_input(req.reviews_data).reviews)

\* the key of the bucket of r stars
StarKey(r) == <<"1_star", "2_star", "3_star", "4_star", "5_star">>[r]

\* the five counts of a rating distribution, added up
BucketSum(buckets) ==
    SumSeq([r \in 1..5 |-> buckets[StarKey(r)]])

\* C18: the five rating-bucket counts partition the reviews: the bucket of r
\* stars counts exactly the reviews rated r, and the five counts add up to
\* total_reviews.
C18_RatingBuckets ==
    RatingsDone =>
        LET df == AnalyzerFrame
            buckets == result.results["rating_distribution"]
        IN  /\ \A r \in 1..5 :
                 buckets[StarKey(r)] = Cardinality({i \in DOMAIN df : df[i].rating = 10 * r})
            /\ BucketSum(buckets) = result.total_reviews

\* what the analyzer does keep: the bucket of r stars counts exactly the rows
\* rated r, so no row is counted twice and the counts never exceed the total
C18_WholeStarBuckets ==
    RatingsDone =>
        LET df == AnalyzerFrame
            buckets == result.results["rating_distribution"]
        IN  /\ \A r \in 1..5 :
                 buckets[StarKey(r)] = Cardinality({i \in DOMAIN df : df[i].rating = 10 * r})
            /\ BucketSum(buckets) <= result.total_reviews

\* a row rated between two whole stars was analysed
C18_HalfStarRow ==
    /\ RatingsDone
    /\ \E i \in DOMAIN AnalyzerFrame : AnalyzerFrame[i].rating \notin {10, 20, 30, 40, 50}

\* the fetch of main.py returned reviews with their rating distribution
FetchedDistribution ==
    /\ pc = "done"
    /\ IsSuccess(result)
    /\ "rating_distribution" \in DOMAIN result

\* main.py: the five counts of a fetch add up to total_reviews
C18_FetchBucketsSum ==
    FetchedDistribution =>
        SumSeq([r \in 1..5 |-> result.rating_distribution[<<"1", "2", "3", "4", "5">>[r]]])
            = result.total_reviews

\* an analysis with its timestamp blanked
WithoutTimestamp(analysis) ==
    IF "analyzed_at" \in DOMAIN analysis THEN [analysis EXCEPT !.analyzed_at = ""] ELSE analysis

\* the same input was analysed a second time
RanTwice == pc = "again"

\* C19: analysing the same reviews a second time gives a result equal to the
\* first in every field except the timestamp.
C19_Idempotent ==
    RanTwice => WithoutTimestamp(result) = WithoutTimestamp(req.first)

\* what does hold: the two results agree in every field except the insights
\* (main.py), and in every field except analyzed_at (analyzer.py)
C19_IdempotentButInsights ==
    RanTwice =>
        IF "insights" \in DOMAIN result /\ "insights" \in DOMAIN req.first
          THEN [WithoutTimestamp(result) EXCEPT !.insights = << >>]
                   = [WithoutTimestamp(req.first) EXCEPT !.insights = << >>]
          ELSE result = req.first

\* what does hold: without the chat completion the second result is the first
C19_IdempotentWithoutOpenAI ==
    RanTwice /\ ~cfg.OPENAI_AVAILABLE => WithoutTimestamp(result) = WithoutTimestamp(req.first)

\* the analyzer ran twice with two clock readings
C19_AnalyzerRanTwice ==
    /\ RanTwice
    /\ req.via = "EnhancedReviewAnalyzer.analyze_reviews"
    /\ IsSuccess(result)
    /\ result.analyzed_at # req.first.analyzed_at

\* a stage of analyze_reviews (main.py) raised: the bot detection, on a review
\* whose text is None
MainStageRaised ==
    /\ pc \in {"done", "again"}
    /\ req.via = "analyze_reviews"
    /\ BOT_DETECTOR_AVAILABLE /\ req.filter_bots /\ BatchRaises(req.reviews)

\* a stage of the analyzer raised, the dataframe being ready
AnalyzerStageRaised ==
    /\ pc \in {"done", "again"}
    /\ req.via = "EnhancedReviewAnalyzer.analyze_reviews"
    /\ AnalyzerFrame # << >>
    /\ req.failing # "none"

\* the fields every analysis of main.py carries
MainAnalysisFields ==
    {"sentiment_distribution", "top_keywords", "themes", "emotions", "summaries",
     "review_samples", "insights", "bot_detection"}

\* the analyzer replaced the output of the stage that raised and ran the others
AnalyzerStageContained ==
    /\ IsSuccess(result)
    /\ \A key \in Range(AnalysisStages) :
         result.results[key] = IF key = req.failing THEN StageFailed
                               ELSE StageResult(key, AnalyzerFrame)
    /\ req.failing = "insights" <=> result.insights = <<[kind |-> "Insights generation failed"]>>
    /\ req.failing = "summary" <=> result.summary = "Summary generation failed"

\* C20: when one stage of the analysis raises, its output is replaced by a
\* placeholder, the other stages still run, and the analysis is returned as a
\* success: the exception does not reach the caller.
C20_StageFailureContained ==
    /\ MainStageRaised => result # AnalysisRaises /\ MainAnalysisFields \subseteq DOMAIN result
    /\ AnalyzerStageRaised => AnalyzerStageContained

\* what does hold: the analyzer contains the failure of any one stage
C20_AnalyzerContained ==
    AnalyzerStageRaised => AnalyzerStageContained

\* the rating stage of the analyzer raised and the analysis came back
C20_RatingStageRaised ==
    /\ AnalyzerStageRaised
    /\ req.failing = "rating_distribution"
    /\ IsSuccess(result)

----------------------------------------------------------------------------
(* The bounded wait of the adapter.                                        *)

\* the last adapter call ended in the wait's own timeout record
WaitTimedOut(log, errs) ==
    /\ log # << >> /\ errs # << >>
    /\ log[Len(log)].run_status = "TIMED_OUT"
    /\ errs[Len(errs)].error = "Scraping failed: Run timeout reached"

----------------------------------------------------------------------------
(* What a fetch leaves behind.                                             *)

\* C21: a fetch or analysis invocation writes no file and no module-level store: what a
\* later invocation can see is what was there before the call.
C21_NoLastingState == files = {} /\ growth_data_store = << >>

----------------------------------------------------------------------------
(* Counts of the fetch results.                                            *)

\* a fetch came back with a list of reviews
FetchedReviews ==
    /\ pc = "done"
    /\ IsSuccess(result)
    /\ "reviews" \in DOMAIN result

\* C29: in every successful fetch result, whatever the path (adapter, single or
\* multi-country search, generator), total_reviews is the number of entries of
\* the returned reviews list.
C29_TotalMatchesList ==
    FetchedReviews => result.total_reviews = Len(result.reviews)

\* what does hold: the adapter and the generators count the list they return
C29_AdapterTotalMatchesList ==
    FetchedReviews /\ ~(req.via = "main" /\ result.data_source = "apify")
        => result.total_reviews = Len(result.reviews)

\* what does hold in fetch_apify_reviews: the list is never longer than the count
C29_ListWithinTotal ==
    FetchedReviews => Len(result.reviews) <= result.total_reviews

\* fetch_apify_reviews cut the list of reviews at max_reviews
C29_TruncatedFetch ==
    /\ FetchedReviews
    /\ req.via = "main"
    /\ result.data_source = "apify"
    /\ Len(result.reviews) = req.max_reviews
    /\ result.total_reviews > req.max_reviews

----------------------------------------------------------------------------
(* Scores and verdicts of the bot detector.                                *)

\* the tags of a list of indicators
Tags(indicators) == Range(indicators)

\* C27: the bot score is monotonic in the triggered signals: for two reviews
\* A and B of a batch where every signal A triggers is also triggered by B,
\* the score of A is at most the score of B, both for the individual scores
\* and for the scores after the batch pass, and the batch pass never lowers
\* the score of a review.
C27_MonotoneScore ==
    BotDone =>
        LET analyzed == result.analyzed_reviews
        IN  /\ \A i, j \in DOMAIN analyzed :
                 Tags(Triggered(req.reviews[i])) \subseteq Tags(Triggered(req.reviews[j]))
                     => analyzed[i].bot_analysis.score <= analyzed[j].bot_analysis.score
            /\ \A i, j \in DOMAIN analyzed :
                 Tags(analyzed[i].bot_indicators) \subseteq Tags(analyzed[j].bot_indicators)
                     => analyzed[i].bot_score <= analyzed[j].bot_score
            /\ \A i \in DOMAIN analyzed :
                 analyzed[i].bot_score >= analyze_review(req.reviews[i]).bot_score

\* a batch with two reviews, the signals of the first strictly among those of
\* the second and both non-empty, after a batch pass that bumped them
C27_Witness ==
    /\ BotDone
    /\ \E i, j \in DOMAIN result.analyzed_reviews :
         LET a == result.analyzed_reviews[i]
             b == result.analyzed_reviews[j]
         IN  /\ Tags(Triggered(req.reviews[i])) # {}
             /\ Tags(Triggered(req.reviews[i])) \subseteq Tags(Triggered(req.reviews[j]))
             /\ Tags(Triggered(req.reviews[i])) # Tags(Triggered(req.reviews[j]))
             /\ a.bot_analysis.score < b.bot_analysis.score
             /\ "bulk_posting_same_rating" \in Tags(a.bot_indicators)
             /\ a.bot_score > a.bot_analysis.score

\* C30: after analyze_batch the nested verdict of every analysed review agrees
\* with its top-level fields: bot_analysis.score is bot_score and
\* bot_analysis.indicators is bot_indicators, the bumped reviews included.
C30_NestedVerdictAgrees ==
    BotDone =>
        \A i \in DOMAIN result.analyzed_reviews :
            LET r == result.analyzed_reviews[i]
            IN  /\ r.bot_analysis.score = r.bot_score
                /\ r.bot_analysis.indicators = r.bot_indicators

\* what does hold: the two lists of indicators agree, and the nested score is
\* the score of the review on its own, never above the top-level score
C30_IndicatorsAgree ==
    BotDone =>
        \A i \in DOMAIN result.analyzed_reviews :
            LET r == result.analyzed_reviews[i]
            IN  /\ r.bot_analysis.indicators = r.bot_indicators
                /\ r.bot_analysis.score = analyze_review(req.reviews[i]).bot_score
                /\ r.bot_analysis.score <= r.bot_score

----------------------------------------------------------------------------
(* The reviews the analysis of main.py runs over.                          *)

\* analyze_reviews returned an analysis
Analysed ==
    /\ pc = "done"
    /\ req.via = "analyze_reviews"
    /\ result # EmptyAnalysis /\ result # AnalysisRaises

\* the ids of the reviews the batch pass of the bot detector left unflagged
UnflaggedIds(reviews) ==
    LET analyzed == analyze_batch(reviews).analyzed_reviews
    IN  {analyzed[i].id : i \in {k \in DOMAIN analyzed : ~analyzed[k].is_bot_likely}}

\* every review of every sample list
SampledReviews(samples) ==
    Range(samples.positive) \cup Range(samples.negative) \cup Range(samples.neutral)

\* C23: with bot filtering enabled the analysis runs over the reviews the batch
\* bot pass left unflagged, and over all of them: no flagged review is in the
\* analysed list or in a sample list, the texts handed to the keyword, emotion
\* and theme stages are those of the analysed reviews, and the three sentiment
\* counts add up to the genuine-review count.
C23_GenuineOnly ==
    Analysed /\ BOT_DETECTOR_AVAILABLE /\ req.filter_bots =>
        LET counts == result.sentiment_distribution
        IN  /\ \A i \in DOMAIN result.reviews : ~result.reviews[i].is_bot_likely
            /\ {result.reviews[i].id : i \in DOMAIN result.reviews} = UnflaggedIds(req.reviews)
            /\ \A r \in SampledReviews(result.review_samples) :
                 ~r.is_bot_likely /\ r.id \in UnflaggedIds(req.reviews)
            /\ Len(MainCorpus(req.reviews, req.filter_bots)) = Len(result.reviews)
            /\ counts.positive + counts.negative + counts.neutral
                 = result.bot_detection.genuine_count
            /\ result.bot_detection.genuine_count = Cardinality(UnflaggedIds(req.reviews))

\* the filter removed a flagged review and the analysis sampled a genuine one
C23_Witness ==
    /\ Analysed /\ BOT_DETECTOR_AVAILABLE /\ req.filter_bots
    /\ Len(result.reviews) < Len(req.reviews)
    /\ result.reviews # << >>
    /\ SampledReviews(result.review_samples) # {}
    /\ result.bot_detection.bot_count > 0

\* a review with no text and no rating
BlankReview(review) == review.text = "" /\ review.rating = 0

\* C26: a review whose text is empty and whose rating is 0 contributes nothing
\* to keyword and theme extraction: the texts handed to those stages, which
\* are the corpus whose size decides between clustering and the fallback and
\* the texts the themes count as mentions, are those of the other reviews.
C26_BlankReviewExcluded ==
    Analysed =>
        LET kept == SelectSeq(result.reviews, LAMBDA r : ~BlankReview(r))
        IN  MainCorpus(req.reviews, req.filter_bots)
                = [i \in DOMAIN kept |-> CombinedText(kept[i])]

\* what does hold: every analysed review, blank or not, hands its text to the stages
C26_EveryReviewInCorpus ==
    Analysed =>
        MainCorpus(req.reviews, req.filter_bots)
            = [i \in DOMAIN result.reviews |-> CombinedText(result.reviews[i])]

\* a blank review was analysed with the bot filter on
C26_BlankAnalysed ==
    /\ Analysed /\ req.filter_bots
    /\ \E i \in DOMAIN result.reviews : BlankReview(result.reviews[i])

----------------------------------------------------------------------------
(* The counts of the /api/v1/analyze response.                             *)

\* a successful response of analyze_product whose analysis ran
AnalysedResponse ==
    /\ pc = "done"
    /\ req.via = "analyze_product"
    /\ req.enable_ai
    /\ IsSuccess(result)
    /\ result.sentiment_distribution # None

\* the sum of the three sentiment counts
SentimentTotal(d) == d.positive + d.neutral + d.negative

\* C28: in every successful response with analysis enabled, total_reviews equals the
\* number of entries of the returned reviews list and the sum of the three
\* sentiment_distribution counts.
C28_CountsAgree ==
    AnalysedResponse =>
        /\ result.total_reviews = Len(result.reviews)
        /\ result.total_reviews = SentimentTotal(result.sentiment_distribution)

\* what does hold: the sentiment counts add up to the returned list, which is never
\* longer than total_reviews
C28_ListCounted ==
    AnalysedResponse =>
        /\ Len(result.reviews) = SentimentTotal(result.sentiment_distribution)
        /\ Len(result.reviews) <= result.total_reviews

\* the bot filter removed a review of a fetch that was not truncated
C28_FilteredResponse ==
    /\ AnalysedResponse
    /\ req.fetched.total_reviews = Len(req.fetched.reviews)
    /\ Len(result.reviews) < result.total_reviews
====
